---- MODULE Spec2Model ----
(***************************************************************************)
(* Store-import reconciliation pipeline of SecretSauce:                    *)
(*   scripts/import_new_stores.py  (import_new_stores)                     *)
(*   scripts/geoscraper.py         (run_geoscraper)                        *)
(*   scripts/fix_missing_geo.py    (fix_missing_geometry)                  *)
(* Text values (names, ZIPs, addresses, keys, point literals) are          *)
(* sequences of string fragments, so that lower(), strip(), split('-') and *)
(* the f-string formats are computed the way the Python code computes them.*)
(***************************************************************************)
EXTENDS Integers, Sequences, FiniteSets, TLC

VARIABLES
    cred_ok,            \* SUPABASE_URL / SUPABASE_SERVICE_ROLE_KEY usable
    grocery_stores,     \* table grocery_stores: sequence of rows, id = index
    scraped_zipcodes,   \* table scraped_zipcodes: set of [zip_code, store_count]
    runs,               \* number of runs started so far
    \* ---- one import run (import_new_stores / run_geoscraper) ----
    pc,                 \* position of the import run
    script,             \* "import" (import_new_stores) or "geo" (run_geoscraper)
    dry_run,
    target_zipcodes,    \* set of ZIPs, or ALL_ZIPS for None
    brands_left,        \* brands of brands_to_process not yet iterated
    brand_enum,         \* brand whose features are streamed
    existing_stores,    \* set of store keys
    existing_null_address_pairs,
    stores_to_insert,   \* accumulator
    stats,
    zips_with_stores,   \* dict in insertion order: sequence of [zip, n]
    nfeat,              \* features streamed so far
    \* ---- history of the import run (observation only) ----
    insert_calls,       \* insert calls of the run: sequence of [batch, ok]
    seen,               \* composite keys of the features met so far in the run
    accepted,           \* composite keys of the features accepted so far
    fetch_status,       \* how the dataset fetch of the current brand ended
    slept,              \* seconds of recovery wait of the current iteration
    \* ---- one backfill run (fix_missing_geometry) ----
    bpc,                \* position of the backfill run
    missing_data,       \* ids the initial query selected, in result order
    queue,              \* dict brand -> stores: sequence of [k, stores]
    bidx,               \* brands of queue iterated so far
    stores_by_zip,      \* dict ZIP -> stores: sequence of [k, stores]
    batch_updates,      \* queued updates: sequence of [id, geom, set_address, address]
    failed_store_ids,
    centroid_store_ids,
    stores_with_existing_centroids,
    bstats,
    zip_cache,          \* dict ZIP -> geocoding result: set of [zip, coords]
    conflict_markers,
    todo,               \* stores the fallback loop has still to visit
    \* ---- history of the backfill run (observation only) ----
    geocode_calls,      \* ZIPs passed to geocode_zip_code, in call order
    rpc_ids,            \* ids passed to increment_geocoding_failures
    rpc_result,         \* "none" (no call), "ok" or "failed"
    before,             \* the table as the initial query of the run saw it
    valid_features,     \* per ZIP, the features with a point that the stream of
                        \* the current brand has delivered so far
    \* ---- one feature through the parsers, outside any run ----
    ppc,                \* "input", or the parser that has been applied
    feature,            \* [props, brand_enum, location]: the GeoJSON feature, its
                        \* brand, and the geocoding answer for its ZIP
    store_record,       \* what the parser returned: <<>> for None, else <<record>>
    store_key,          \* what build_store_key returned
    update_payload,     \* what the backfill queued: <<>> or <<[geom]>>
    \* ---- one /grocery-search request (python-api/main.py) ----
    spc,                \* position of the request
    tasks,              \* per store, in stores order: the task's result so far
    results,
    successful_stores,
    failed_stores,
    sidx,               \* stores the result loop has handled
    \* ---- one run of backfill_scraped_zipcodes.py (run_backfill) ----
    zpc,                \* position of the run
    zargs,              \* [limit, dry_run, loop, max_batches, concurrency]
    missing_meta,       \* ZIPs of scraped_zipcodes with geom or city null
    batch_number,
    total_processed,
    futures,            \* per ZIP of the batch: [state, result, yielded]
    processed,
    update_calls,       \* ZIPs passed to update_zipcode in the batch, in order
    \* ---- two import runs at the same time: the locals of each ----
    at,                 \* position of each run
    keys_of,            \* existing_stores of each run
    pairs_of,           \* existing_null_address_pairs of each run
    batch_of,           \* stores_to_insert of each run
    streamed,           \* features each run has streamed
    \* ---- invocations of expand_zipcodes_with_neighbors at the same time ----
    epc,                \* position of each invocation
    eargs,              \* [input_zipcodes, cleanup, skip_existing] of each
    target_table,       \* table target_zipcodes: [zip_code, reason, user_count]
    upserted,           \* inputs each invocation has upserted
    all_zipcodes        \* all_zipcodes of each; at "done", what it returned

\* the variables no step of a run touches
pvars == <<ppc, feature, store_record, store_key, update_payload>>
svars == <<spc, tasks, results, successful_stores, failed_stores, sidx>>
zvars == <<zpc, zargs, missing_meta, batch_number, total_processed, futures,
           processed, update_calls>>
cvars == <<at, keys_of, pairs_of, batch_of, streamed>>
evars == <<epc, eargs, target_table, upserted, all_zipcodes>>
xvars == <<zvars, cvars, evars>>
others == <<pvars, svars, xvars>>

irun == <<pc, script, dry_run, target_zipcodes, brands_left, brand_enum,
           existing_stores, existing_null_address_pairs, stores_to_insert,
           stats, zips_with_stores, nfeat, insert_calls, seen, accepted,
           fetch_status, slept>>
ivars == <<irun, others>>
brun == <<bpc, missing_data, queue, bidx, stores_by_zip, batch_updates,
           failed_store_ids, centroid_store_ids, stores_with_existing_centroids,
           bstats, zip_cache, conflict_markers, todo, geocode_calls, rpc_ids, rpc_result,
           before, valid_features>>
bvars == <<brun, others>>
dbvars == <<cred_ok, grocery_stores, scraped_zipcodes, runs>>
vars == <<dbvars, ivars, bvars>>

(***************************************************************************)
(* Bounds                                                                  *)
(***************************************************************************)
MaxRuns == 2        \* runs executed one after another
MaxFeatures == 3    \* features streamed, over all brands and runs
NumStores == 3      \* stores a search fans out to; grocery_search has five
BATCH_SIZE == 2     \* flush threshold; the scripts use 100

(***************************************************************************)
(* Text helpers: Python str methods                                        *)
(***************************************************************************)
NULL == <<"<null>">>

LowerChar(c) ==
    CASE c = "K" -> "k"
      [] c = "M" -> "m"
      [] c = "S" -> "s"
      [] c = "Kroger" -> "kroger"
      [] c = "KROGER" -> "kroger"
      [] OTHER -> c

Lower(s) == [i \in 1..Len(s) |-> LowerChar(s[i])]

IsSpace(c) == c = " "

RECURSIVE LStrip(_)
LStrip(s) == IF s # <<>> /\ IsSpace(Head(s)) THEN LStrip(Tail(s)) ELSE s

RECURSIVE RStrip(_)
RStrip(s) ==
    IF s # <<>> /\ IsSpace(s[Len(s)]) THEN RStrip(SubSeq(s, 1, Len(s) - 1)) ELSE s

Strip(s) == RStrip(LStrip(s))

\* s.split('-')[0]
RECURSIVE SplitDashFirst(_)
SplitDashFirst(s) ==
    IF s = <<>> \/ Head(s) = "-" THEN <<>>
    ELSE <<Head(s)>> \o SplitDashFirst(Tail(s))

\* raw_zip.split('-')[0].strip()
NormZip(raw_zip) == Strip(SplitDashFirst(raw_zip))

BuildStoreKeyNoLower(store_enum, name, zip_code) ==
    <<store_enum, ":">> \o (IF name # <<>> THEN Strip(name) ELSE <<>>)
        \o <<":">> \o (IF zip_code # <<>> THEN NormZip(zip_code) ELSE <<>>)

\* a key built from the ZIP as given, +4 suffix included
BuildStoreKeyRawZip(store_enum, name, zip_code) ==
    LET normalized_name == IF name # <<>> /\ name # NULL THEN Strip(Lower(name)) ELSE <<>>
        normalized_zip == IF zip_code # <<>> /\ zip_code # NULL THEN Strip(zip_code) ELSE <<>>
    IN  <<store_enum, ":">> \o normalized_name \o <<":">> \o normalized_zip

build_store_key(store_enum, name, zip_code) ==
    LET normalized_name == IF name # <<>> /\ name # NULL THEN Strip(Lower(name)) ELSE <<>>
        normalized_zip == IF zip_code # <<>> /\ zip_code # NULL THEN NormZip(zip_code) ELSE <<>>
    IN  <<store_enum, ":">> \o normalized_name \o <<":">> \o normalized_zip

\* a point literal with latitude first
PointLatFirst(coords) == <<"POINT(", coords[2], " ", coords[1], ")">>

\* f"POINT({coords[0]} {coords[1]})"
PointOf(coords) == <<"POINT(", coords[1], " ", coords[2], ")">>

(***************************************************************************)
(* Brands, datasets                                                        *)
(***************************************************************************)
ENUM_TO_SPIDER ==
    [b \in {"kroger", "aldi"} |-> IF b = "kroger" THEN "kroger" ELSE "aldi"]

MappedBrands == DOMAIN ENUM_TO_SPIDER
\* a --brand value with no spider behind it
Brands == MappedBrands \cup {"costco"}

ALL_ZIPS == {NULL}

Feature(name, postcode, street, housenumber, coords) ==
    [name |-> name, postcode |-> postcode, street |-> street,
     housenumber |-> housenumber, coords |-> coords]

LonLat == <<"-86", "40">>

\* the features a dataset is made of: a store, the same store under another
\* spelling and without street, a second store of the ZIP without street, a
\* store of another ZIP, a feature without point geometry, one without name
\* (and of another ZIP)
Features ==
    { Feature(<<"K">>, <<"1">>, <<"S">>, <<"7">>, LonLat),
      Feature(<<"k", " ">>, <<"1", "-", "9">>, <<>>, <<"7">>, LonLat),
      Feature(<<"m">>, <<"1">>, <<>>, <<>>, LonLat),
      Feature(<<"K">>, <<"2">>, <<"S">>, <<>>, LonLat),
      Feature(<<"K">>, <<"1">>, <<"S">>, <<"7">>, <<>>),
      Feature(<<>>, <<"2">>, <<"S">>, <<"7">>, LonLat) }

\* what the dataset of a brand is drawn from
DatasetOf(b) ==
    IF b = "kroger" THEN Features
    ELSE {f \in Features : f.name = <<"K">> /\ f.postcode = <<"1">>}

TargetSets == {{<<"1">>}}

(***************************************************************************)
(* Rows and the pieces of one import run                                   *)
(***************************************************************************)
create_stats_dict ==
    [new_stores |-> 0, duplicates_skipped |-> 0, no_geometry |-> 0,
     wrong_zipcode |-> 0, errors |-> 0]

\* a street address that falls back to the house number alone
StreetAddressNumberAlone(f) ==
    IF f.housenumber # <<>> /\ f.street # <<>>
    THEN f.housenumber \o <<" ">> \o f.street
    ELSE IF f.street # <<>> THEN f.street
    ELSE IF f.housenumber # <<>> THEN f.housenumber ELSE NULL

\* street_address of a feature: "<number> <street>", the street, or None
StreetAddress(f) ==
    IF f.housenumber # <<>> /\ f.street # <<>>
    THEN f.housenumber \o <<" ">> \o f.street
    ELSE IF f.street # <<>> THEN f.street ELSE NULL

\* store_record of an accepted feature
StoreRecord(f, b) ==
    [store_enum |-> b, name |-> f.name, address |-> StreetAddress(f),
     zip_code |-> NormZip(f.postcode), geom |-> PointOf(f.coords),
     failure_count |-> 0]

\* "if not coords or len(coords) != 2"
BadCoords(coords) == coords = <<>> \/ Len(coords) # 2

\* "not store.get('address')": None or ''
NoAddress(address) == address = NULL \/ address = <<>>

SeqToSet(s) == {s[i] : i \in DOMAIN s}

Min(a, b) == IF a <= b THEN a ELSE b

RECURSIVE record_inserted_zips(_, _)
record_inserted_zips(records, zws) ==
    IF records = <<>> THEN zws
    ELSE LET z == Head(records).zip_code
             hit == \E i \in DOMAIN zws : zws[i].zip = z
             zws1 == IF z = <<>> THEN zws
                     ELSE IF hit
                     THEN [i \in DOMAIN zws |->
                             IF zws[i].zip = z THEN [zws[i] EXCEPT !.n = @ + 1]
                             ELSE zws[i]]
                     ELSE Append(zws, [zip |-> z, n |-> 1])
         IN  record_inserted_zips(Tail(records), zws1)

\* keys of the rows a run pre-loads: import_new_stores reads every row of the
\* brands, fetch_existing_store_keys only those whose zip_code is a target ZIP
LoadedRows(brands, zips) ==
    {i \in DOMAIN grocery_stores :
        /\ grocery_stores[i].store_enum \in brands
        /\ (zips = ALL_ZIPS \/ grocery_stores[i].zip_code \in zips)}

\* a pre-load that finds no existing store
NoExistingKeys(brands, zips) == {}

\* "Fetch existing stores for each brand to check for duplicates"
ExistingKeys(brands, zips) ==
    {build_store_key(grocery_stores[i].store_enum, grocery_stores[i].name,
                     grocery_stores[i].zip_code) : i \in LoadedRows(brands, zips)}

ExistingNullAddress(brands, zips) ==
    {<<grocery_stores[i].store_enum, grocery_stores[i].zip_code>> :
        i \in {j \in LoadedRows(brands, zips) : NoAddress(grocery_stores[j].address)}}

\* the composite identity of section 3: (brand, lower-cased trimmed name, 5-digit ZIP)
CompositeKey(b, name, zip_code) == <<b, Strip(Lower(name)), SplitDashFirst(zip_code)>>

BrandFilters == {{"kroger", "aldi"}, {"kroger", "costco"}}

FetchOutcomes == {"ok", "http_404", "http_5xx", "network"}

(***************************************************************************)
(* Start of an import run                                                  *)
(***************************************************************************)
RunOver == pc \in {"idle", "report", "aborted", "killed"}

BeginRun(scr, dry, target, brands) ==
    /\ script' = scr
    /\ dry_run' = dry
    /\ target_zipcodes' = target
    /\ brands_left' = brands
    /\ brand_enum' = "none"
    /\ stores_to_insert' = <<>>
    /\ stats' = create_stats_dict
    /\ zips_with_stores' = <<>>
    /\ nfeat' = nfeat
    /\ insert_calls' = <<>>
    /\ seen' = {}
    /\ accepted' = {}
    /\ fetch_status' = "none"
    /\ slept' = 0
    /\ runs' = runs + 1
    /\ pc' = "brands"
    /\ UNCHANGED <<bvars, cred_ok, grocery_stores, scraped_zipcodes>>

\* module level: create_client(URL, KEY) with an unset or invalid credential
StartupFail ==
    /\ pc = "idle" /\ ~cred_ok /\ runs = 0
    /\ pc' = "fatal"
    /\ UNCHANGED <<bvars, dbvars, script, dry_run, target_zipcodes, brands_left, brand_enum,
                   existing_stores, existing_null_address_pairs, stores_to_insert,
                   stats, zips_with_stores, nfeat, insert_calls, seen, accepted,
                   fetch_status, slept>>

\* import_new_stores up to the brand loop. target is the content of the
\* target_zipcodes table, or ALL_ZIPS when --all-zipcodes is given or the
\* target query raises.
StartImport(brand_filter, target) ==
    /\ RunOver /\ cred_ok /\ runs < MaxRuns /\ nfeat < MaxFeatures
    /\ target # {}
    /\ existing_stores' = ExistingKeys(brand_filter, ALL_ZIPS)
    /\ existing_null_address_pairs' = {}
    /\ BeginRun("import", FALSE, target, brand_filter)

\* import_new_stores with an empty target_zipcodes table: returns at once,
\* before any of the run's locals is used
ImportNoTargets ==
    /\ RunOver /\ cred_ok /\ runs < MaxRuns /\ nfeat < MaxFeatures
    /\ runs' = runs + 1
    /\ pc' = "idle"
    /\ script' = "import"
    /\ dry_run' = FALSE
    /\ target_zipcodes' = {}
    /\ brands_left' = {}
    /\ brand_enum' = "none"
    /\ existing_stores' = {}
    /\ existing_null_address_pairs' = {}
    /\ stores_to_insert' = <<>>
    /\ stats' = create_stats_dict
    /\ zips_with_stores' = <<>>
    /\ insert_calls' = <<>>
    /\ seen' = {}
    /\ accepted' = {}
    /\ fetch_status' = "none"
    /\ slept' = 0
    /\ UNCHANGED <<bvars, cred_ok, grocery_stores, scraped_zipcodes, nfeat>>

\* run_geoscraper up to the brand loop
StartGeo(brand_filter, target, dry) ==
    /\ RunOver /\ cred_ok /\ runs < MaxRuns /\ nfeat < MaxFeatures
    /\ target # {}
    /\ existing_stores' = ExistingKeys(brand_filter, target)
    /\ existing_null_address_pairs' = ExistingNullAddress(brand_filter, target)
    /\ BeginRun("geo", dry, target, brand_filter)

\* run_geoscraper without ZIP codes: returns at once, before any of the
\* run's locals is used
GeoNoZips ==
    /\ RunOver /\ cred_ok /\ runs < MaxRuns /\ nfeat < MaxFeatures
    /\ runs' = runs + 1
    /\ pc' = "idle"
    /\ script' = "geo"
    /\ dry_run' = FALSE
    /\ target_zipcodes' = {}
    /\ brands_left' = {}
    /\ brand_enum' = "none"
    /\ existing_stores' = {}
    /\ existing_null_address_pairs' = {}
    /\ stores_to_insert' = <<>>
    /\ stats' = create_stats_dict
    /\ zips_with_stores' = <<>>
    /\ insert_calls' = <<>>
    /\ seen' = {}
    /\ accepted' = {}
    /\ fetch_status' = "none"
    /\ slept' = 0
    /\ UNCHANGED <<bvars, cred_ok, grocery_stores, scraped_zipcodes, nfeat>>

(***************************************************************************)
(* The brand loop                                                          *)
(***************************************************************************)
DELAY_AFTER_ERROR == 60

GEO_DELAY_BETWEEN_SPIDERS == 10

\* the time.sleep of the except clauses: a server error (status >= 500) and
\* a RequestException wait, any other HTTPError does not
RecoveryDelay(scr, fetch) ==
    IF fetch \in {"http_5xx", "network"}
    THEN (IF scr = "import" THEN DELAY_AFTER_ERROR ELSE GEO_DELAY_BETWEEN_SPIDERS)
    ELSE 0

\* one iteration header: the spider lookup and session.get + raise_for_status
NextBrand(b, fetch) ==
    /\ pc = "brands" /\ b \in brands_left
    /\ brands_left' = brands_left \ {b}
    /\ brand_enum' = b
    /\ IF b \notin MappedBrands
       THEN /\ fetch = "ok"
            /\ pc' = "brands"
            /\ stats' = stats
       ELSE IF fetch = "ok"
       THEN /\ pc' = "features"
            /\ stats' = stats
       ELSE /\ pc' = "brands"
            /\ stats' = [stats EXCEPT !.errors = @ + 1]
    /\ fetch_status' = IF b \in MappedBrands THEN fetch ELSE "none"
    /\ slept' = IF b \in MappedBrands THEN RecoveryDelay(script, fetch) ELSE 0
    /\ UNCHANGED <<bvars, dbvars, script, dry_run, target_zipcodes, existing_stores,
                   existing_null_address_pairs, stores_to_insert, zips_with_stores,
                   nfeat, insert_calls, seen, accepted>>

\* the feature stream of the brand is exhausted
EndBrand ==
    /\ pc = "features"
    /\ pc' = "brands"
    /\ UNCHANGED <<bvars, dbvars, script, dry_run, target_zipcodes, brands_left, brand_enum,
                   existing_stores, existing_null_address_pairs, stores_to_insert,
                   stats, zips_with_stores, nfeat, insert_calls, seen, accepted,
                   fetch_status, slept>>

(***************************************************************************)
(* One feature of the stream                                               *)
(***************************************************************************)
\* the checks of import_new_stores with the duplicate check left out
ImportOutcomeNoDupCheck(f, b) ==
    LET zip_code == NormZip(f.postcode)
    IN  IF f.name = <<>> \/ zip_code = <<>> THEN "skipped"
        ELSE IF target_zipcodes # ALL_ZIPS /\ zip_code \notin target_zipcodes
        THEN "wrong_zipcode"
        ELSE IF BadCoords(f.coords) THEN "no_geometry"
        ELSE "accepted"

\* import_new_stores without the target ZIP filter: the variant the
\* restriction to the target set is told apart from
ImportOutcomeNoZipFilter(f, b) ==
    LET zip_code == NormZip(f.postcode)
    IN  IF f.name = <<>> \/ zip_code = <<>> THEN "skipped"
        ELSE IF build_store_key(b, f.name, zip_code) \in existing_stores
        THEN "duplicate"
        ELSE IF BadCoords(f.coords) THEN "no_geometry"
        ELSE "accepted"

\* checks that drop a feature outside the target ZIPs without counting it
ImportOutcomeDropsOutside(f, b) ==
    LET zip_code == NormZip(f.postcode)
    IN  IF f.name = <<>> \/ zip_code = <<>> THEN "skipped"
        ELSE IF target_zipcodes # ALL_ZIPS /\ zip_code \notin target_zipcodes
        THEN "skipped"
        ELSE IF build_store_key(b, f.name, zip_code) \in existing_stores
        THEN "duplicate"
        ELSE IF BadCoords(f.coords) THEN "no_geometry"
        ELSE "accepted"

\* the checks import_new_stores makes on a feature, in its order
ImportOutcome(f, b) ==
    LET zip_code == NormZip(f.postcode)
    IN  IF f.name = <<>> \/ zip_code = <<>> THEN "skipped"
        ELSE IF target_zipcodes # ALL_ZIPS /\ zip_code \notin target_zipcodes
        THEN "wrong_zipcode"
        ELSE IF build_store_key(b, f.name, zip_code) \in existing_stores
        THEN "duplicate"
        ELSE IF BadCoords(f.coords) THEN "no_geometry"
        ELSE "accepted"

\* run_geoscraper without the target ZIP filter: the variant the drop of
\* out-of-target features is told apart from
GeoOutcomeNoZipFilter(f, b) ==
    LET zip_code == NormZip(f.postcode)
    IN  IF f.name = <<>> \/ zip_code = <<>> THEN "skipped"
        ELSE IF build_store_key(b, f.name, zip_code) \in existing_stores
        THEN "duplicate"
        ELSE IF BadCoords(f.coords) THEN "no_geometry"
        ELSE IF StreetAddress(f) = NULL
                /\ <<b, zip_code>> \in existing_null_address_pairs
        THEN "duplicate"
        ELSE "accepted"

\* the checks run_geoscraper makes on a feature, in its order
GeoOutcome(f, b) ==
    LET zip_code == NormZip(f.postcode)
    IN  IF f.name = <<>> \/ zip_code = <<>> THEN "skipped"
        ELSE IF zip_code \notin target_zipcodes THEN "wrong_zipcode"
        ELSE IF build_store_key(b, f.name, zip_code) \in existing_stores
        THEN "duplicate"
        ELSE IF BadCoords(f.coords) THEN "no_geometry"
        ELSE IF StreetAddress(f) = NULL
                /\ <<b, zip_code>> \in existing_null_address_pairs
        THEN "duplicate"
        ELSE "accepted"

\* a dry run that leaves the batch uncounted: the variant the statistics of a
\* dry run are told apart from
InsertBatchSkipsDryRun(dry, insert_ok) == ~dry /\ insert_ok

\* statistics lines reached whether or not the insert call returned: the
\* variant the counting of inserted records is told apart from
InsertBatchCountsFailed(dry, insert_ok) == TRUE

\* insert_batch / insert_store_batch reach their statistics lines: always in
\* a dry run, and otherwise when the insert call returns
insert_batch(dry, insert_ok) == dry \/ insert_ok

\* the effect of one loop iteration with the given outcome; insert_ok is the
\* result of the insert call the iteration makes when the accumulator is full
FeatureStep(f, outcome, insert_ok) ==
    LET b == brand_enum
        zip_code == NormZip(f.postcode)
        rec == StoreRecord(f, b)
        acc == Append(stores_to_insert, rec)
        flush == outcome = "accepted" /\ Len(acc) >= BATCH_SIZE
        write == flush /\ ~dry_run
        failed == write /\ ~insert_ok
        counted == flush /\ insert_batch(dry_run, insert_ok)
        one(o) == IF outcome = o THEN 1 ELSE 0
    IN  /\ insert_ok \/ write
        /\ nfeat' = nfeat + 1
        /\ seen' = IF outcome = "skipped" THEN seen
                   ELSE seen \cup {CompositeKey(b, f.name, f.postcode)}
        /\ accepted' = IF outcome = "accepted"
                       THEN accepted \cup {CompositeKey(b, f.name, f.postcode)}
                       ELSE accepted
        /\ existing_stores' =
              IF outcome = "accepted"
              THEN existing_stores \cup {build_store_key(b, f.name, zip_code)}
              ELSE existing_stores
        /\ existing_null_address_pairs' =
              IF outcome = "accepted" /\ script = "geo" /\ rec.address = NULL
              THEN existing_null_address_pairs \cup {<<b, zip_code>>}
              ELSE existing_null_address_pairs
        /\ stores_to_insert' =
              IF outcome # "accepted" THEN stores_to_insert
              ELSE IF counted THEN <<>> ELSE acc
        /\ stats' =
              [new_stores |-> stats.new_stores + (IF counted THEN Len(acc) ELSE 0),
               duplicates_skipped |-> stats.duplicates_skipped + one("duplicate"),
               no_geometry |-> stats.no_geometry + one("no_geometry"),
               wrong_zipcode |-> stats.wrong_zipcode + one("wrong_zipcode"),
               errors |-> stats.errors + (IF failed THEN 1 ELSE 0)]
        /\ zips_with_stores' =
              IF counted THEN record_inserted_zips(acc, zips_with_stores)
              ELSE zips_with_stores
        /\ insert_calls' =
              IF write THEN Append(insert_calls, [batch |-> acc, ok |-> insert_ok])
              ELSE insert_calls
        /\ grocery_stores' =
              IF write /\ insert_ok THEN grocery_stores \o acc ELSE grocery_stores
        /\ pc' = IF failed THEN "brands" ELSE "features"
        /\ UNCHANGED <<bvars, cred_ok, scraped_zipcodes, runs, script, dry_run,
                       target_zipcodes, brands_left, brand_enum, fetch_status,
                       slept>>

\* import_new_stores: body of "for feature in features"
ImportFeature(f, insert_ok) ==
    /\ pc = "features" /\ script = "import" /\ nfeat < MaxFeatures
    /\ FeatureStep(f, ImportOutcome(f, brand_enum), insert_ok)

\* run_geoscraper: body of "for feature in features"
GeoFeature(f, insert_ok) ==
    /\ pc = "features" /\ script = "geo" /\ nfeat < MaxFeatures
    /\ f \in DatasetOf(brand_enum)
    /\ FeatureStep(f, GeoOutcome(f, brand_enum), insert_ok)

(***************************************************************************)
(* End of the run: last batch, tracking rows, report                       *)
(***************************************************************************)
\* "Insert remaining stores": import_new_stores catches the failure,
\* run_geoscraper calls insert_batch outside any try
FinalFlush(insert_ok) ==
    LET write == stores_to_insert # <<>> /\ ~dry_run
        failed == write /\ ~insert_ok
        counted == stores_to_insert # <<>> /\ insert_batch(dry_run, insert_ok)
    IN  /\ pc = "brands" /\ brands_left = {}
        /\ insert_ok \/ write
        /\ grocery_stores' =
              IF write /\ insert_ok THEN grocery_stores \o stores_to_insert
              ELSE grocery_stores
        /\ insert_calls' =
              IF write
              THEN Append(insert_calls, [batch |-> stores_to_insert, ok |-> insert_ok])
              ELSE insert_calls
        /\ stats' =
              [stats EXCEPT
                 !.new_stores = @ + (IF counted THEN Len(stores_to_insert) ELSE 0),
                 !.errors = @ + (IF failed /\ script = "import" THEN 1 ELSE 0)]
        /\ zips_with_stores' =
              IF counted THEN record_inserted_zips(stores_to_insert, zips_with_stores)
              ELSE zips_with_stores
        /\ stores_to_insert' =
              IF counted /\ script = "import" THEN <<>> ELSE stores_to_insert
        /\ pc' = IF failed /\ script = "geo" THEN "aborted" ELSE "tracking"
        /\ fetch_status' = "none"
        /\ slept' = 0
        /\ UNCHANGED <<bvars, cred_ok, scraped_zipcodes, runs, script, dry_run,
                       target_zipcodes, brands_left, brand_enum, existing_stores,
                       existing_null_address_pairs, nfeat, seen, accepted>>

\* supabase.table("scraped_zipcodes").upsert({...})
Upsert(table, zip_code, count) ==
    {r \in table : r.zip_code # zip_code}
        \cup {[zip_code |-> zip_code, store_count |-> count]}

RECURSIVE UpsertAll(_, _, _)
UpsertAll(table, zws, k) ==
    IF k = 0 THEN table
    ELSE Upsert(UpsertAll(table, zws, k - 1), zws[k].zip, zws[k].n)

\* the tracking upserts and the statistics report; the first k upserts
\* succeed, and when k is short of the dict the next one raises:
\* import_new_stores catches that, update_scraped_zipcodes of geoscraper.py
\* does not
Tracking(k) ==
    LET due == IF script = "import" THEN target_zipcodes # ALL_ZIPS
               ELSE ~dry_run /\ zips_with_stores # <<>>
        raised == due /\ k < Len(zips_with_stores)
    IN  /\ pc = "tracking"
        /\ k \in 0..Len(zips_with_stores)
        /\ due \/ k = Len(zips_with_stores)
        /\ scraped_zipcodes' =
              IF due THEN UpsertAll(scraped_zipcodes, zips_with_stores, k)
              ELSE scraped_zipcodes
        /\ pc' = IF raised /\ script = "geo" THEN "aborted" ELSE "report"
        /\ UNCHANGED <<bvars, cred_ok, grocery_stores, runs, script, dry_run,
                       target_zipcodes, brands_left, brand_enum, existing_stores,
                       existing_null_address_pairs, stores_to_insert, stats,
                       zips_with_stores, nfeat, insert_calls, seen, accepted,
                   fetch_status, slept>>

\* the process is stopped from outside between two steps: its locals are
\* gone, what it has written stays
Kill ==
    /\ pc \in {"brands", "features", "tracking"}
    /\ pc' = "killed"
    /\ dry_run' = FALSE
    /\ target_zipcodes' = {}
    /\ brands_left' = {}
    /\ brand_enum' = "none"
    /\ existing_stores' = {}
    /\ existing_null_address_pairs' = {}
    /\ stores_to_insert' = <<>>
    /\ stats' = create_stats_dict
    /\ zips_with_stores' = <<>>
    /\ insert_calls' = <<>>
    /\ seen' = {}
    /\ accepted' = {}
    /\ fetch_status' = "none"
    /\ slept' = 0
    /\ UNCHANGED <<bvars, dbvars, script, nfeat>>

(***************************************************************************)
(* Import runs one after another                                           *)
(***************************************************************************)
InitDB ==
    /\ cred_ok \in BOOLEAN
    /\ grocery_stores = <<>>
    /\ scraped_zipcodes = {}
    /\ runs = 0

InitImportRun ==
    /\ pc = "idle"
    /\ script = "none"
    /\ dry_run = FALSE
    /\ target_zipcodes = ALL_ZIPS
    /\ brands_left = {}
    /\ brand_enum = "none"
    /\ existing_stores = {}
    /\ existing_null_address_pairs = {}
    /\ stores_to_insert = <<>>
    /\ stats = create_stats_dict
    /\ zips_with_stores = <<>>
    /\ nfeat = 0
    /\ insert_calls = <<>>
    /\ seen = {}
    /\ accepted = {}
    /\ fetch_status = "none"
    /\ slept = 0

\* the ZIPs the features of the datasets carry
FeatureZips == {NormZip(f.postcode) : f \in Features}

\* no feature streamed yet
NoFeatures == [z \in FeatureZips |-> 0]

InitBackfillRun ==
    /\ bpc = "idle"
    /\ missing_data = <<>>
    /\ queue = <<>>
    /\ bidx = 0
    /\ stores_by_zip = <<>>
    /\ batch_updates = <<>>
    /\ failed_store_ids = {}
    /\ centroid_store_ids = {}
    /\ stores_with_existing_centroids = {}
    /\ bstats = [all_the_places |-> 0, centroid_upgrades |-> 0,
                 zip_fallback |-> 0, failed |-> 0]
    /\ zip_cache = {}
    /\ conflict_markers = {}
    /\ todo = <<>>
    /\ geocode_calls = <<>>
    /\ rpc_ids = {}
    /\ rpc_result = "none"
    /\ before = <<>>
    /\ valid_features = NoFeatures

\* no run of the other scripts is under way
InitX ==
    /\ zpc = "idle"
    /\ zargs = [limit |-> 1, dry_run |-> FALSE, loop |-> FALSE, max_batches |-> 0,
                concurrency |-> 1]
    /\ missing_meta = {}
    /\ batch_number = 0
    /\ total_processed = 0
    /\ futures = <<>>
    /\ processed = 0
    /\ update_calls = <<>>

\* a scheduled import_new_stores and an event-triggered run_geoscraper
ImportRuns == {"import_new_stores", "run_geoscraper"}

\* no two import runs are under way at the same time
InitC ==
    /\ at = [p \in ImportRuns |-> "idle"]
    /\ keys_of = [p \in ImportRuns |-> {}]
    /\ pairs_of = [p \in ImportRuns |-> {}]
    /\ batch_of = [p \in ImportRuns |-> <<>>]
    /\ streamed = [p \in ImportRuns |-> 0]

\* the two invocations of expand_zipcodes_with_neighbors
Invocations == {1, 2}

\* no invocation is under way
InitE ==
    /\ epc = [i \in Invocations |-> "idle"]
    /\ eargs = [i \in Invocations |->
                  [input_zipcodes |-> <<>>, cleanup |-> FALSE,
                   skip_existing |-> FALSE]]
    /\ target_table = {}
    /\ upserted = [i \in Invocations |-> 0]
    /\ all_zipcodes = [i \in Invocations |-> {}]

\* no feature is under the parsers
InitOthers ==
    /\ InitX
    /\ InitC
    /\ InitE
    /\ ppc = "none"
    /\ feature = <<>>
    /\ store_record = <<>>
    /\ store_key = <<>>
    /\ update_payload = <<>>
    /\ spc = "idle"
    /\ tasks = <<>>
    /\ results = <<>>
    /\ successful_stores = 0
    /\ failed_stores = 0
    /\ sidx = 0

InitImport == InitDB /\ InitImportRun /\ InitBackfillRun /\ InitOthers

NextImport ==
    \/ StartupFail
    \/ \E bf \in BrandFilters, t \in TargetSets \cup {ALL_ZIPS} : StartImport(bf, t)
    \/ ImportNoTargets
    \/ \E bf \in BrandFilters, t \in TargetSets, d \in BOOLEAN : StartGeo(bf, t, d)
    \/ GeoNoZips
    \/ \E b \in Brands, fetch \in FetchOutcomes : NextBrand(b, fetch)
    \/ \E f \in DatasetOf(brand_enum), ok \in BOOLEAN : ImportFeature(f, ok)
    \/ \E f \in DatasetOf(brand_enum), ok \in BOOLEAN : GeoFeature(f, ok)
    \/ EndBrand
    \/ \E ok \in BOOLEAN : FinalFlush(ok)
    \/ \E k \in 0..MaxFeatures : Tracking(k)
    \/ Kill

SpecImport == InitImport /\ [][NextImport]_vars

\* run_geoscraper alone, one run after another
NextGeo ==
    \/ \E bf \in BrandFilters, t \in TargetSets, d \in BOOLEAN : StartGeo(bf, t, d)
    \/ \E b \in Brands, fetch \in FetchOutcomes : NextBrand(b, fetch)
    \/ \E f \in Features, ok \in BOOLEAN : GeoFeature(f, ok)
    \/ EndBrand
    \/ \E ok \in BOOLEAN : FinalFlush(ok)
    \/ \E k \in 0..MaxFeatures : Tracking(k)

\* a run that has a step to take takes it: the script runs to its end
FairGeo == InitImport /\ [][NextGeo]_vars /\ WF_vars(NextGeo)

(***************************************************************************)
(* fix_missing_geometry: the backfill run                                  *)
(***************************************************************************)
MAX_FAILURES == 3

CENTROID == " (centroid)"

\* f"ZIP {zip_code} (centroid)"
AddressMarker(zip_code) == <<"ZIP ">> \o zip_code \o <<CENTROID>>

\* address.like.*centroid* and "'centroid' in address.lower()"
HasCentroid(address) ==
    address # NULL /\ \E i \in DOMAIN address : address[i] = CENTROID

\* .like("address", "ZIP % (centroid)")
LikeZipCentroid(address) ==
    /\ address # NULL /\ Len(address) >= 2
    /\ Head(address) = "ZIP " /\ address[Len(address)] = CENTROID

\* the geocoding answer for a ZIP: results[0].geometry.location
Location(zip_code) ==
    [lat |-> IF zip_code = <<"1">> THEN "41" ELSE "42", lng |-> "-87"]

\* the None that geocode_zip_code returns when it has no answer
NoLocation == [lat |-> "<null>", lng |-> "<null>"]

\* a centroid literal with latitude first
PointOfLocationLatFirst(loc) == <<"POINT(", loc.lat, " ", loc.lng, ")">>

\* f"POINT({coords['lng']} {coords['lat']})"
PointOfLocation(loc) == <<"POINT(", loc.lng, " ", loc.lat, ")">>

\* a selection whose failure-count filter lets a count of 3 through
SelectedUpToMax(table) ==
    {i \in DOMAIN table :
        /\ table[i].geom = NULL \/ HasCentroid(table[i].address)
        /\ table[i].failure_count <= MAX_FAILURES}

\* .or_("geom.is.null,address.like.*centroid*").lt("failure_count", 3)
Selected(table) ==
    {i \in DOMAIN table :
        /\ table[i].geom = NULL \/ HasCentroid(table[i].address)
        /\ table[i].failure_count < MAX_FAILURES}

\* the ids of a set in ascending order (the order of the query result)
RECURSIVE Ascending(_)
Ascending(S) ==
    IF S = {} THEN <<>>
    ELSE LET m == CHOOSE x \in S : \A y \in S : x <= y
         IN  <<m>> \o Ascending(S \ {m})

\* dict.setdefault(k, []).append(v) on a dict kept as a sequence of [k, stores]
DictAppend(d, k, v) ==
    IF \E i \in DOMAIN d : d[i].k = k
    THEN [i \in DOMAIN d |->
            IF d[i].k = k THEN [d[i] EXCEPT !.stores = Append(@, v)] ELSE d[i]]
    ELSE Append(d, [k |-> k, stores |-> <<v>>])

\* "Group work by brand"
RECURSIVE GroupByBrand(_, _)
GroupByBrand(ids, d) ==
    IF ids = <<>> THEN d
    ELSE GroupByBrand(Tail(ids),
                      DictAppend(d, grocery_stores[Head(ids)].store_enum, Head(ids)))

\* stores_by_zip of a brand: stores whose normalized ZIP is empty are left out
RECURSIVE IndexByZip(_, _)
IndexByZip(ids, d) ==
    IF ids = <<>> THEN d
    ELSE LET db_zip == NormZip(grocery_stores[Head(ids)].zip_code)
         IN  IndexByZip(Tail(ids),
                        IF db_zip # <<>> THEN DictAppend(d, db_zip, Head(ids)) ELSE d)

\* [store for zip_stores in d.values() for store in zip_stores]
RECURSIVE Flatten(_)
Flatten(d) == IF d = <<>> THEN <<>> ELSE Head(d).stores \o Flatten(Tail(d))

RemoveAt(q, i) == SubSeq(q, 1, i - 1) \o SubSeq(q, i + 1, Len(q))

BackfillOver == bpc \in {"idle", "report", "aborted"}

\* a run that recognizes no centroid among the selected stores
NoExistingCentroids(ids) == {}

\* "Identify stores that already have centroids"
ExistingCentroids(ids) ==
    {i \in SeqToSet(ids) : HasCentroid(grocery_stores[i].address)}

\* fix_missing_geometry up to the brand loop
StartBackfill ==
    LET ids == Ascending(Selected(grocery_stores))
    IN  /\ BackfillOver /\ cred_ok /\ runs < MaxRuns
        /\ runs' = runs + 1
        /\ before' = grocery_stores
        /\ valid_features' = NoFeatures
        /\ missing_data' = ids
        /\ queue' = GroupByBrand(ids, <<>>)
        /\ bidx' = 0
        /\ stores_by_zip' = <<>>
        /\ batch_updates' = <<>>
        /\ failed_store_ids' = {}
        /\ centroid_store_ids' = {}
        /\ stores_with_existing_centroids' = ExistingCentroids(ids)
        /\ bstats' = [all_the_places |-> 0, centroid_upgrades |-> 0,
                      zip_fallback |-> 0, failed |-> 0]
        /\ zip_cache' = {}
        /\ conflict_markers' = {}
        /\ todo' = <<>>
        /\ geocode_calls' = <<>>
        /\ rpc_ids' = {}
        /\ rpc_result' = "none"
        /\ bpc' = IF ids = <<>> THEN "idle" ELSE "brands"
        /\ UNCHANGED <<ivars, cred_ok, grocery_stores, scraped_zipcodes>>

\* head of one iteration of "for brand_enum, stores in queue.items()":
\* the spider lookup, stores_by_zip, session.get + raise_for_status
BeginBrand(fetch) ==
    LET b == queue[bidx + 1].k
        index == IndexByZip(queue[bidx + 1].stores, <<>>)
    IN  /\ bpc = "brands" /\ bidx < Len(queue)
        /\ bidx' = bidx + 1
        /\ IF b \notin MappedBrands
           THEN /\ fetch = "ok"
                /\ UNCHANGED <<queue, stores_by_zip, bpc>>
           ELSE IF fetch = "ok"
           THEN /\ stores_by_zip' = index
                /\ bpc' = "features"
                /\ UNCHANGED queue
           ELSE /\ queue' = [queue EXCEPT ![bidx + 1].stores = Flatten(index)]
                /\ UNCHANGED <<stores_by_zip, bpc>>
        /\ UNCHANGED <<ivars, dbvars, missing_data, batch_updates, failed_store_ids,
                       centroid_store_ids, stores_with_existing_centroids, bstats,
                       zip_cache, conflict_markers, todo, geocode_calls, rpc_ids,
                       rpc_result, before, valid_features>>

\* a removal that leaves the matched store in its bucket
RemoveKeepsStore(bucket, store) == bucket

\* stores_by_zip[osm_zip].remove(store): the first entry equal to store goes
remove(bucket, store) ==
    IF \E j \in DOMAIN bucket : bucket[j] = store
    THEN RemoveAt(bucket, CHOOSE j \in DOMAIN bucket :
                             /\ bucket[j] = store
                             /\ \A k \in 1..(j - 1) : bucket[k] # store)
    ELSE bucket

\* body of "for feature in features"
BackfillFeature(f) ==
    LET osm_zip == NormZip(f.postcode)
        hit == {i \in DOMAIN stores_by_zip : stores_by_zip[i].k = osm_zip}
        match == hit # {} /\ ~BadCoords(f.coords)
        i == CHOOSE j \in hit : TRUE
        store == Head(stores_by_zip[i].stores)
        was_centroid == store \in stores_with_existing_centroids
        rest == remove(stores_by_zip[i].stores, store)
    IN  /\ bpc = "features" /\ nfeat < MaxFeatures
        /\ f \in DatasetOf(queue[bidx].k)
        /\ nfeat' = nfeat + 1
        /\ valid_features' =
              IF BadCoords(f.coords) THEN valid_features
              ELSE [valid_features EXCEPT ![osm_zip] = @ + 1]
        /\ IF match
           THEN /\ batch_updates' =
                      Append(batch_updates,
                             [id |-> store, geom |-> PointOf(f.coords),
                              set_address |-> FALSE, address |-> NULL])
                /\ bstats' =
                      IF was_centroid
                      THEN [bstats EXCEPT !.centroid_upgrades = @ + 1]
                      ELSE [bstats EXCEPT !.all_the_places = @ + 1]
                /\ stores_by_zip' =
                      IF rest = <<>> THEN RemoveAt(stores_by_zip, i)
                      ELSE [stores_by_zip EXCEPT ![i].stores = rest]
           ELSE UNCHANGED <<batch_updates, bstats, stores_by_zip>>
        /\ UNCHANGED <<others, dbvars, pc, script, dry_run, target_zipcodes, brands_left,
                       brand_enum, existing_stores, existing_null_address_pairs,
                       stores_to_insert, stats, zips_with_stores, insert_calls,
                       seen, accepted, fetch_status, slept, bpc, missing_data,
                       queue, bidx,
                       failed_store_ids, centroid_store_ids,
                       stores_with_existing_centroids, zip_cache, conflict_markers,
                       todo, geocode_calls, rpc_ids, rpc_result, before>>

\* end of the feature stream, or an exception while it is read: "Rebuild
\* stores list from remaining unmatched stores"
EndBrandStream ==
    /\ bpc = "features"
    /\ queue' = [queue EXCEPT ![bidx].stores = Flatten(stores_by_zip)]
    /\ stores_by_zip' = <<>>
    /\ valid_features' = NoFeatures
    /\ bpc' = "brands"
    /\ UNCHANGED <<ivars, dbvars, missing_data, bidx, batch_updates,
                   failed_store_ids, centroid_store_ids,
                   stores_with_existing_centroids, bstats, zip_cache,
                   conflict_markers, todo, geocode_calls, rpc_ids, rpc_result, before>>

\* "Query conflicts for all brands at once"
ConflictRows ==
    {i \in DOMAIN grocery_stores :
        /\ \E q \in DOMAIN queue : queue[q].k = grocery_stores[i].store_enum
        /\ LikeZipCentroid(grocery_stores[i].address)}

\* the stores the fallback loop visits, in its order
RECURSIVE Remaining(_)
Remaining(d) ==
    IF d = <<>> THEN <<>>
    ELSE [j \in DOMAIN Head(d).stores |->
            [brand |-> Head(d).k, id |-> Head(d).stores[j]]] \o Remaining(Tail(d))

\* between the brand loop and the fallback loop: all_zip_codes and
\* conflict_markers
LoadConflicts ==
    LET rem == Remaining(queue)
        all_zip_codes ==
            {grocery_stores[rem[j].id].zip_code : j \in DOMAIN rem} \ {<<>>, NULL}
    IN  /\ bpc = "brands" /\ bidx = Len(queue)
        /\ conflict_markers' =
              IF all_zip_codes = {} THEN {}
              ELSE {<<grocery_stores[i].store_enum, grocery_stores[i].zip_code,
                      grocery_stores[i].address>> : i \in ConflictRows}
        /\ todo' = rem
        /\ bpc' = "fallback"
        /\ UNCHANGED <<ivars, dbvars, missing_data, queue, bidx, stores_by_zip,
                       batch_updates, failed_store_ids, centroid_store_ids,
                       stores_with_existing_centroids, bstats, zip_cache,
                       geocode_calls, rpc_ids, rpc_result, before, valid_features>>

\* a cache that keeps the answers only, not the failures
CachedOnlyAnswers(zip_code) ==
    {e \in zip_cache : e.zip = zip_code /\ e.coords # NoLocation}

\* zip_cache[zip_code], kept as a set of [zip, coords] entries
Cached(zip_code) == {e \in zip_cache : e.zip = zip_code}

\* a marker check that never finds the marker in use
MarkerAlwaysFree(conflict_key, markers) == TRUE

\* "if conflict_key not in conflict_markers"
MarkerFree(conflict_key, markers) == conflict_key \notin markers

\* body of "for store in stores" in the ZIP centroid fallback
FallbackStore(geocode_ok) ==
    LET brand == Head(todo).brand
        store_id == Head(todo).id
        zip_code == grocery_stores[store_id].zip_code
        already_has_centroid == store_id \in stores_with_existing_centroids
        no_zip == zip_code = NULL \/ zip_code = <<>>
        lookup == ~no_zip /\ ~already_has_centroid
        miss == lookup /\ Cached(zip_code) = {}
        coords == IF miss
                  THEN (IF geocode_ok THEN Location(zip_code) ELSE NoLocation)
                  ELSE (CHOOSE e \in Cached(zip_code) : TRUE).coords
        address_marker == AddressMarker(zip_code)
        conflict_key == <<brand, zip_code, address_marker>>
        free == MarkerFree(conflict_key, conflict_markers)
    IN  /\ bpc = "fallback" /\ todo # <<>>
        /\ miss \/ geocode_ok
        /\ todo' = Tail(todo)
        /\ zip_cache' = IF miss THEN zip_cache \cup {[zip |-> zip_code, coords |-> coords]}
                        ELSE zip_cache
        /\ geocode_calls' = IF miss THEN Append(geocode_calls, zip_code)
                            ELSE geocode_calls
        /\ IF no_zip
           THEN /\ bstats' = [bstats EXCEPT !.failed = @ + 1]
                /\ failed_store_ids' = failed_store_ids \cup {store_id}
                /\ UNCHANGED <<centroid_store_ids, batch_updates, conflict_markers>>
           ELSE IF already_has_centroid
           THEN /\ centroid_store_ids' = centroid_store_ids \cup {store_id}
                /\ UNCHANGED <<bstats, failed_store_ids, batch_updates,
                               conflict_markers>>
           ELSE IF coords # NoLocation
           THEN /\ batch_updates' =
                      Append(batch_updates,
                             [id |-> store_id, geom |-> PointOfLocation(coords),
                              set_address |-> free,
                              address |-> IF free THEN address_marker ELSE NULL])
                /\ conflict_markers' = conflict_markers \cup {conflict_key}
                /\ bstats' = [bstats EXCEPT !.zip_fallback = @ + 1]
                /\ centroid_store_ids' = centroid_store_ids \cup {store_id}
                /\ UNCHANGED failed_store_ids
           ELSE /\ bstats' = [bstats EXCEPT !.failed = @ + 1]
                /\ failed_store_ids' = failed_store_ids \cup {store_id}
                /\ UNCHANGED <<centroid_store_ids, batch_updates, conflict_markers>>
        /\ UNCHANGED <<ivars, dbvars, bpc, missing_data, queue, bidx, stores_by_zip,
                       stores_with_existing_centroids, rpc_ids, rpc_result, before,
                       valid_features>>

\* supabase.table("grocery_stores").update(update).eq("id", store_id)
UpdateRow(table, u) ==
    [table EXCEPT ![u.id] =
        [@ EXCEPT !.geom = u.geom,
                  !.address = IF u.set_address THEN u.address ELSE @]]

RECURSIVE UpdateAll(_, _, _)
UpdateAll(table, updates, k) ==
    IF k = 0 \/ updates = <<>> THEN table
    ELSE UpdateAll(UpdateRow(table, Head(updates)), Tail(updates), k - 1)

\* "FINAL BATCH UPDATE": the first k updates are executed; an update that
\* raises ends the run, since the loop is in no try block
ApplyUpdates(k) ==
    /\ bpc = "fallback" /\ todo = <<>>
    /\ k \in 0..Len(batch_updates)
    /\ grocery_stores' = UpdateAll(grocery_stores, batch_updates, k)
    /\ bpc' = IF k < Len(batch_updates) THEN "aborted" ELSE "increment"
    /\ UNCHANGED <<ivars, cred_ok, scraped_zipcodes, runs, missing_data, queue, bidx,
                   stores_by_zip, batch_updates, failed_store_ids,
                   centroid_store_ids, stores_with_existing_centroids, bstats,
                   zip_cache, conflict_markers, todo, geocode_calls, rpc_ids,
                   rpc_result, before, valid_features>>

\* the remote procedure increment_geocoding_failures(store_ids): one more
\* failure for every listed store
increment_geocoding_failures(table, store_ids) ==
    [i \in DOMAIN table |->
        IF i \in store_ids THEN [table[i] EXCEPT !.failure_count = @ + 1]
        ELSE table[i]]

\* an increment that leaves the complete failures out
OnlyCentroidsIncremented == centroid_store_ids

\* "Combine failed stores and stores that used/kept centroids"
stores_to_increment == failed_store_ids \cup centroid_store_ids

\* "INCREMENT FAILURE COUNT FOR STORES WITHOUT PRECISE LOCATIONS" and the
\* final statistics
IncrementFailures(rpc_ok) ==
        /\ bpc = "increment"
        /\ IF stores_to_increment # {}
           THEN /\ rpc_ids' = stores_to_increment
                /\ rpc_result' = IF rpc_ok THEN "ok" ELSE "failed"
                /\ grocery_stores' =
                      IF rpc_ok
                      THEN increment_geocoding_failures(grocery_stores,
                                                        stores_to_increment)
                      ELSE grocery_stores
           ELSE /\ rpc_ok
                /\ UNCHANGED <<rpc_ids, rpc_result, grocery_stores>>
        /\ bpc' = "report"
        /\ UNCHANGED <<ivars, cred_ok, scraped_zipcodes, runs, missing_data, queue,
                       bidx, stores_by_zip, batch_updates, failed_store_ids,
                       centroid_store_ids, stores_with_existing_centroids, bstats,
                       zip_cache, conflict_markers, todo, geocode_calls, before,
                       valid_features>>

(***************************************************************************)
(* Backfill runs one after another over a table of unresolved stores       *)
(***************************************************************************)
MaxStores == 2

UnresolvedStore(b, zip_code, failure_count) ==
    [store_enum |-> b, name |-> <<"K">>, address |-> NULL, zip_code |-> zip_code,
     geom |-> NULL, failure_count |-> failure_count]

UnresolvedStores ==
    {UnresolvedStore("kroger", <<"1">>, 0), UnresolvedStore("kroger", <<"1">>, 2),
     UnresolvedStore("kroger", <<>>, 0), UnresolvedStore("kroger", <<"2">>, 0),
     UnresolvedStore("costco", <<"1">>, 0)}

InitBackfill ==
    /\ cred_ok = TRUE
    /\ grocery_stores \in [1..MaxStores -> UnresolvedStores]
    /\ scraped_zipcodes = {}
    /\ runs = 0
    /\ InitImportRun
    /\ InitBackfillRun
    /\ InitOthers

NextBackfill ==
    \/ StartBackfill
    \/ \E fetch \in FetchOutcomes : BeginBrand(fetch)
    \/ \E f \in Features : BackfillFeature(f)
    \/ EndBrandStream
    \/ LoadConflicts
    \/ \E ok \in BOOLEAN : FallbackStore(ok)
    \/ \E k \in 0..MaxStores : ApplyUpdates(k)
    \/ \E ok \in BOOLEAN : IncrementFailures(ok)

SpecBackfill == InitBackfill /\ [][NextBackfill]_vars

(***************************************************************************)
(* One feature through the parsers and the key builder                     *)
(***************************************************************************)
\* a key the properties of a feature do not hold
ABSENT == <<"<absent>">>

Props(name, brand, postcode, street, housenumber, coords) ==
    [name |-> name, brand |-> brand, postcode |-> postcode, street |-> street,
     housenumber |-> housenumber, coords |-> coords]

\* props.get("name", props.get("brand", ""))
NameOf(props) ==
    IF props.name # ABSENT THEN props.name
    ELSE IF props.brand # ABSENT THEN props.brand
    ELSE <<>>

\* the values the parsers read from a feature
FeatureOf(props) ==
    Feature(NameOf(props), props.postcode, props.street, props.housenumber,
            props.coords)

\* scraper_common.parse_store_from_feature: <<>> for None
parse_store_from_feature(props, b) ==
    LET f == FeatureOf(props)
        zip_code == NormZip(f.postcode)
    IN  IF f.name = <<>> \/ zip_code = <<>> THEN <<>>
        ELSE IF BadCoords(f.coords) THEN <<>>
        ELSE <<StoreRecord(f, b)>>

\* the inline parser of import_new_stores: the record it appends, if any
InlineRecord(props, b) ==
    LET f == FeatureOf(props)
    IN  IF ImportOutcome(f, b) = "accepted" THEN <<StoreRecord(f, b)>> ELSE <<>>

NameProps == {ABSENT, <<>>, <<" ">>, <<"Kroger">>, <<" ", "KROGER", " ">>}
BrandProps == {ABSENT, <<"Kroger">>}
Postcodes ==
    {<<>>, <<"47906">>, <<"47906", "-", "1234">>, <<" ", "47906", " ", "-", "1234">>,
     <<" ", "-", "1234">>}
Streets == {<<>>, <<"Main St">>}
Housenumbers == {<<>>, <<"100">>}
Coordinates == {<<>>, <<"-86.9", "40.4">>, <<"-86.9", "40.4", "0">>}

ParserInputs ==
    {Props(n, b, z, st, h, c) :
        n \in NameProps, b \in BrandProps, z \in Postcodes, st \in Streets,
        h \in Housenumbers, c \in Coordinates}

ParseCommon ==
    /\ ppc = "input"
    /\ store_record' = parse_store_from_feature(feature.props, feature.brand_enum)
    /\ ppc' = "parse_store_from_feature"
    /\ UNCHANGED <<dbvars, irun, brun, xvars, svars, feature, store_key, update_payload>>

ParseInline ==
    /\ ppc = "input"
    /\ store_record' = InlineRecord(feature.props, feature.brand_enum)
    /\ ppc' = "import_new_stores"
    /\ UNCHANGED <<dbvars, irun, brun, xvars, svars, feature, store_key, update_payload>>

BuildKey ==
    /\ ppc = "input"
    /\ store_key' = build_store_key(feature.brand_enum, NameOf(feature.props),
                                    feature.props.postcode)
    /\ ppc' = "build_store_key"
    /\ UNCHANGED <<dbvars, irun, brun, xvars, svars, feature, store_record, update_payload>>

\* fix_missing_geometry, a feature matched to a store: the queued geometry
PreciseMatch ==
    /\ ppc = "input"
    /\ ~BadCoords(feature.props.coords)
    /\ update_payload' = <<[geom |-> PointOf(feature.props.coords)]>>
    /\ ppc' = "precise_match"
    /\ UNCHANGED <<dbvars, irun, brun, xvars, svars, feature, store_record, store_key>>

\* fix_missing_geometry, a geocoded ZIP centroid: the queued geometry
CentroidFallback ==
    /\ ppc = "input"
    /\ update_payload' = <<[geom |-> PointOfLocation(feature.location)]>>
    /\ ppc' = "zip_fallback"
    /\ UNCHANGED <<dbvars, irun, brun, xvars, svars, feature, store_record, store_key>>

\* answers of the geocoding service
Locations == {Location(<<"1">>), [lat |-> "40.4", lng |-> "-86.9"]}

\* no row exists and no run is under way
InitParse ==
    /\ cred_ok = TRUE
    /\ grocery_stores = <<>>
    /\ scraped_zipcodes = {}
    /\ runs = 0
    /\ InitImportRun
    /\ InitBackfillRun
    /\ ppc = "input"
    /\ feature \in [props : ParserInputs, brand_enum : {"kroger"},
                     location : Locations]
    /\ store_record = <<>>
    /\ store_key = <<>>
    /\ update_payload = <<>>
    /\ InitX
    /\ InitC
    /\ InitE
    /\ spc = "idle"
    /\ tasks = <<>>
    /\ results = <<>>
    /\ successful_stores = 0
    /\ failed_stores = 0
    /\ sidx = 0

NextParse ==
    ParseCommon \/ ParseInline \/ BuildKey \/ PreciseMatch \/ CentroidFallback

SpecParse == InitParse /\ [][NextParse]_vars

(***************************************************************************)
(* python-api/main.py: the /grocery-search request                         *)
(***************************************************************************)
\* stores = ["Target", "Kroger", "Meijer", "99Ranch", "Walmart"], cut to the
\* first NumStores
stores ==
    SubSeq(<<"Target", "Kroger", "Meijer", "99Ranch", "Walmart">>, 1, NumStores)

\* how one store's scraper can end: the script file is missing, node exits
\* non-zero, stdout is not JSON, the 30 s timeout expires, another exception
\* is raised, the thread itself fails; or node exits 0 and stdout is a JSON
\* list of objects, an empty list, a list of non-objects, an object, an
\* object with an "error" key, null, or a number or string
ScraperOutcomes ==
    {"missing", "nonzero", "invalid_json", "timeout", "exception", "task_exception",
     "items", "empty_list", "list_of_scalars", "item", "error_dict", "null", "scalar"}

Value(kind, n, error) == [kind |-> kind, n |-> n, error |-> error]

Running == Value("running", 0, "")

\* what asyncio.gather holds for a task that ended with outcome o: the value
\* run_scraper_isolated returned, or the exception of the task
run_scraper_isolated(o) ==
    CASE o = "missing" -> Value("dict", 0, "Scraper file not found")
      [] o = "nonzero" -> Value("dict", 0, "Script failed with code")
      [] o = "invalid_json" -> Value("dict", 0, "Invalid JSON response")
      [] o = "timeout" -> Value("dict", 0, "Scraper exceeded 30 second timeout")
      [] o = "exception" -> Value("dict", 0, "Exception")
      [] o = "task_exception" -> Value("Exception", 0, "task failed")
      [] o = "items" -> Value("list", 2, "")
      [] o = "empty_list" -> Value("list", 0, "")
      [] o = "list_of_scalars" -> Value("list_of_scalars", 1, "")
      [] o = "item" -> Value("dict", 1, "")
      [] o = "error_dict" -> Value("dict", 0, "error")
      [] o = "null" -> Value("None", 0, "")
      [] OTHER -> Value("scalar", 0, "")

ErrorEntry(store, error) == [store |-> store, provider |-> "", error |-> error]
Item(store) == [store |-> "", provider |-> store, error |-> ""]

\* resolved_zip, and the tasks handed to asyncio.gather
StartSearch(resolved) ==
    /\ spc = "idle"
    /\ spc' = IF resolved THEN "gather" ELSE "http_400"
    /\ tasks' = IF resolved THEN [i \in DOMAIN stores |-> Running] ELSE <<>>
    /\ UNCHANGED <<dbvars, irun, brun, xvars, pvars, results, successful_stores,
                   failed_stores, sidx>>

\* one store's thread ends, whatever the others do
TaskEnds(i, o) ==
    /\ spc = "gather"
    /\ i \in DOMAIN tasks
    /\ tasks[i] = Running
    /\ tasks' = [tasks EXCEPT ![i] = run_scraper_isolated(o)]
    /\ UNCHANGED <<dbvars, irun, brun, xvars, pvars, spc, results, successful_stores,
                   failed_stores, sidx>>

\* await asyncio.gather(*tasks, return_exceptions=True)
Gathered ==
    /\ spc = "gather"
    /\ \A i \in DOMAIN tasks : tasks[i] # Running
    /\ spc' = "process"
    /\ UNCHANGED <<dbvars, irun, brun, xvars, pvars, tasks, results, successful_stores,
                   failed_stores, sidx>>

\* "Unexpected result format": the result reached the end of the loop body
\* and is not None
Unexpected(store_results) ==
    /\ store_results.kind \notin {"Exception", "list_of_scalars"}
    /\ ~(store_results.kind = "dict" /\ store_results.error # "")
    /\ ~(store_results.kind = "list" /\ store_results.n > 0)
    /\ store_results.kind # "dict"
    /\ store_results.kind # "None"

\* body of "for store, store_results in zip(stores, store_results_list)"
ProcessStore ==
    LET store == stores[sidx + 1]
        store_results == tasks[sidx + 1]
        is_exception == store_results.kind = "Exception"
        is_error == store_results.kind = "dict" /\ store_results.error # ""
        is_list == store_results.kind = "list" /\ store_results.n > 0
        is_dict == store_results.kind = "dict" /\ store_results.error = ""
        \* item["provider"] = store on an item that is no dict
        raises == store_results.kind = "list_of_scalars"
    IN  /\ spc = "process"
        /\ sidx < Len(stores)
        /\ spc' = IF raises THEN "http_500" ELSE "process"
        /\ sidx' = IF raises THEN sidx ELSE sidx + 1
        /\ results' =
              IF is_exception
              THEN Append(results, ErrorEntry(store, "scraper task failed"))
              ELSE IF is_error THEN Append(results, ErrorEntry(store, store_results.error))
              ELSE IF is_list THEN results \o [k \in 1..store_results.n |-> Item(store)]
              ELSE IF is_dict THEN Append(results, Item(store))
              ELSE results
        /\ successful_stores' =
              successful_stores + (IF is_list \/ is_dict THEN 1 ELSE 0)
        /\ failed_stores' =
              failed_stores
                + (IF is_exception \/ is_error \/ Unexpected(store_results) THEN 1 ELSE 0)
        /\ UNCHANGED <<dbvars, irun, brun, xvars, pvars, tasks>>

\* return {"results": results, "summary": {...}}
Respond ==
    /\ spc = "process"
    /\ sidx = Len(stores)
    /\ spc' = "done"
    /\ UNCHANGED <<dbvars, irun, brun, xvars, pvars, tasks, results, successful_stores,
                   failed_stores, sidx>>

InitSearch ==
    /\ cred_ok = TRUE
    /\ grocery_stores = <<>>
    /\ scraped_zipcodes = {}
    /\ runs = 0
    /\ InitImportRun
    /\ InitBackfillRun
    /\ InitOthers

NextSearch ==
    \/ \E resolved \in BOOLEAN : StartSearch(resolved)
    \/ \E i \in 1..NumStores, o \in ScraperOutcomes : TaskEnds(i, o)
    \/ Gathered
    \/ ProcessStore
    \/ Respond

SpecSearch == InitSearch /\ [][NextSearch]_vars

(***************************************************************************)
(* backfill_scraped_zipcodes.py: run_backfill and process_batch            *)
(***************************************************************************)
MaxZips == 2     \* rows of scraped_zipcodes that lack metadata
MaxCount == 3    \* batch_number and total_processed are kept exact up to
                 \* this value and stay there: they are compared with
                 \* smaller numbers only

ZipRows == 1..MaxZips

\* x + n for a counter that is exact up to MaxCount
Counted(x, n) == Min(x + n, MaxCount)

\* how the request of fetch_zip_metadata can end: a place with latitude and
\* longitude, a status other than 200, no places, a requests exception
\* (timeout included), a body or number that does not parse (ValueError), a
\* place without latitude or longitude (float(None): TypeError)
LookupOutcomes ==
    {"ok", "http_error", "no_places", "request_exception", "value_error",
     "no_latitude"}

\* fetch_zip_metadata, as fetch_worker hands it on: the metadata, None, or
\* the exception that neither except clause catches
fetch_zip_metadata(o) ==
    IF o = "ok" THEN "metadata"
    ELSE IF o = "no_latitude" THEN "raised"
    ELSE "none"

\* _parse_args and main: max_batches 0 stands for None
ZipArgs ==
    [limit : 1..MaxZips, dry_run : BOOLEAN, loop : BOOLEAN,
     max_batches : 0..(MaxCount - 1), concurrency : 1..MaxZips]

ZipRunOver == zpc \in {"done", "lookup_raised", "update_raised"}

\* head of "while True": gather_missing_zipcodes, and process_batch up to
\* the submission of the lookups
GatherBatch(rows) ==
    /\ zpc = "loop"
    /\ rows \subseteq missing_meta
    /\ Cardinality(rows) = Min(zargs.limit, Cardinality(missing_meta))
    /\ batch_number' = Counted(batch_number, 1)
    /\ futures' = [z \in rows |->
                      [state |-> "queued", result |-> "none", yielded |-> FALSE]]
    /\ processed' = 0
    /\ update_calls' = <<>>
    /\ zpc' = IF rows = {} THEN "done" ELSE "pool"
    /\ UNCHANGED <<dbvars, irun, brun, pvars, svars, cvars, evars,
                   zargs, missing_meta,
                   total_processed>>

\* a thread of the pool takes a queued lookup
WorkerStarts(z) ==
    LET workers == Min(zargs.concurrency, Cardinality(DOMAIN futures))
        running == {y \in DOMAIN futures : futures[y].state = "running"}
    IN  /\ zpc = "pool" /\ z \in DOMAIN futures
        /\ futures[z].state = "queued"
        /\ Cardinality(running) < workers
        /\ futures' = [futures EXCEPT ![z].state = "running"]
        /\ UNCHANGED <<dbvars, irun, brun, pvars, svars, cvars, evars,
                   zpc, zargs, missing_meta,
                       batch_number, total_processed, processed, update_calls>>

\* fetch_worker returns or raises
WorkerEnds(z, o) ==
    /\ zpc = "pool" /\ z \in DOMAIN futures
    /\ futures[z].state = "running"
    /\ futures' = [futures EXCEPT ![z].state = "finished",
                                  ![z].result = fetch_zip_metadata(o)]
    /\ UNCHANGED <<dbvars, irun, brun, pvars, svars, cvars, evars,
                   zpc, zargs, missing_meta,
                   batch_number, total_processed, processed, update_calls>>

\* body of "for future in as_completed(futures)": future.result() and
\* update_zipcode
Yield(z, update_ok) ==
    /\ zpc = "pool" /\ z \in DOMAIN futures
    /\ futures[z].state = "finished" /\ ~futures[z].yielded
    /\ futures' = [futures EXCEPT ![z].yielded = TRUE]
    /\ IF futures[z].result = "raised"
       THEN /\ update_ok
            /\ zpc' = "lookup_raised"
            /\ UNCHANGED <<missing_meta, processed, update_calls>>
       ELSE IF futures[z].result = "none"
       THEN /\ update_ok
            /\ UNCHANGED <<zpc, missing_meta, processed, update_calls>>
       ELSE IF zargs.dry_run
       THEN /\ update_ok
            /\ update_calls' = Append(update_calls, z)
            /\ processed' = processed + 1
            /\ UNCHANGED <<zpc, missing_meta>>
       ELSE IF update_ok
       THEN /\ update_calls' = Append(update_calls, z)
            /\ missing_meta' = missing_meta \ {z}
            /\ processed' = processed + 1
            /\ UNCHANGED zpc
       ELSE /\ update_calls' = Append(update_calls, z)
            /\ zpc' = "update_raised"
            /\ UNCHANGED <<missing_meta, processed>>
    /\ UNCHANGED <<dbvars, irun, brun, pvars, svars, cvars, evars,
                   zargs, batch_number,
                   total_processed>>

\* process_batch returns; the rest of the iteration of "while True"
EndBatch ==
    /\ zpc = "pool"
    /\ \A z \in DOMAIN futures : futures[z].yielded
    /\ total_processed' = Counted(total_processed, processed)
    /\ zpc' = IF ~zargs.loop THEN "done"
              ELSE IF zargs.max_batches # 0 /\ batch_number >= zargs.max_batches
              THEN "done"
              ELSE "loop"
    /\ UNCHANGED <<dbvars, irun, brun, pvars, svars, cvars, evars,
                   zargs, missing_meta,
                   batch_number, futures, processed, update_calls>>

InitZip ==
    /\ cred_ok = TRUE
    /\ grocery_stores = <<>>
    /\ scraped_zipcodes = {}
    /\ runs = 0
    /\ InitImportRun
    /\ InitBackfillRun
    /\ ppc = "none"
    /\ feature = <<>>
    /\ store_record = <<>>
    /\ store_key = <<>>
    /\ update_payload = <<>>
    /\ spc = "idle"
    /\ tasks = <<>>
    /\ results = <<>>
    /\ successful_stores = 0
    /\ failed_stores = 0
    /\ sidx = 0
    /\ InitC
    /\ InitE
    /\ zpc = "loop"
    /\ zargs \in ZipArgs
    /\ missing_meta \in SUBSET ZipRows
    /\ batch_number = 0
    /\ total_processed = 0
    /\ futures = <<>>
    /\ processed = 0
    /\ update_calls = <<>>

NextZip ==
    \/ \E rows \in SUBSET ZipRows : GatherBatch(rows)
    \/ \E z \in ZipRows : WorkerStarts(z)
    \/ \E z \in ZipRows, o \in LookupOutcomes : WorkerEnds(z, o)
    \/ \E z \in ZipRows, ok \in BOOLEAN : Yield(z, ok)
    \/ EndBatch

\* the scheduler lets every thread that can run do so in the end
FairZip == InitZip /\ [][NextZip]_vars /\ WF_vars(NextZip)

(***************************************************************************)
(* Two import runs at the same time on one store table                     *)
(***************************************************************************)
MaxStreamed == 2    \* features each of the two runs streams

\* import_new_stores runs without ZIP filter, run_geoscraper for one ZIP
TargetOf(p) == IF p = "import_new_stores" THEN ALL_ZIPS ELSE {<<"1">>}

\* the checks of the two scripts on a feature of the kroger dataset, in
\* their order, against the keys the run holds
OutcomeIn(p, f) ==
    LET zip_code == NormZip(f.postcode)
    IN  IF f.name = <<>> \/ zip_code = <<>> THEN "skipped"
        ELSE IF TargetOf(p) # ALL_ZIPS /\ zip_code \notin TargetOf(p)
        THEN "wrong_zipcode"
        ELSE IF build_store_key("kroger", f.name, zip_code) \in keys_of[p]
        THEN "duplicate"
        ELSE IF BadCoords(f.coords) THEN "no_geometry"
        ELSE IF p = "run_geoscraper" /\ StreetAddress(f) = NULL
                /\ <<"kroger", zip_code>> \in pairs_of[p]
        THEN "duplicate"
        ELSE "accepted"

\* the run reads the keys of the rows the table holds at that moment
LoadKeys(p) ==
    /\ at[p] = "start"
    /\ keys_of' = [keys_of EXCEPT ![p] = ExistingKeys({"kroger"}, TargetOf(p))]
    /\ pairs_of' =
          [pairs_of EXCEPT ![p] =
              IF p = "run_geoscraper"
              THEN ExistingNullAddress({"kroger"}, TargetOf(p)) ELSE {}]
    /\ at' = [at EXCEPT ![p] = "features"]
    /\ UNCHANGED <<dbvars, irun, brun, pvars, svars, zvars, evars, batch_of,
                   streamed>>

\* one iteration of the feature loop of run p, with the insert call it makes
\* when the accumulator is full; an insert that raises ends the loop
StreamFeature(p, f, insert_ok) ==
    LET zip_code == NormZip(f.postcode)
        rec == StoreRecord(f, "kroger")
        acc == Append(batch_of[p], rec)
        accepts == OutcomeIn(p, f) = "accepted"
        flush == accepts /\ Len(acc) >= BATCH_SIZE
    IN  /\ at[p] = "features" /\ streamed[p] < MaxStreamed
        /\ insert_ok \/ flush
        /\ streamed' = [streamed EXCEPT ![p] = @ + 1]
        /\ keys_of' =
              [keys_of EXCEPT ![p] =
                  IF accepts
                  THEN @ \cup {build_store_key("kroger", f.name, zip_code)}
                  ELSE @]
        /\ pairs_of' =
              [pairs_of EXCEPT ![p] =
                  IF accepts /\ p = "run_geoscraper" /\ rec.address = NULL
                  THEN @ \cup {<<"kroger", zip_code>>} ELSE @]
        /\ batch_of' =
              [batch_of EXCEPT ![p] =
                  IF ~accepts THEN @ ELSE IF flush /\ insert_ok THEN <<>> ELSE acc]
        /\ grocery_stores' =
              IF flush /\ insert_ok THEN grocery_stores \o acc ELSE grocery_stores
        /\ at' = [at EXCEPT ![p] = IF flush /\ ~insert_ok THEN "end" ELSE @]
        /\ UNCHANGED <<cred_ok, scraped_zipcodes, runs, irun, brun, pvars, svars,
                       zvars, evars>>

\* "Insert remaining stores", once the stream of the brand is over
LastBatch(p, insert_ok) ==
    LET write == batch_of[p] # <<>>
    IN  /\ at[p] \in {"features", "end"}
        /\ insert_ok \/ write
        /\ grocery_stores' =
              IF write /\ insert_ok THEN grocery_stores \o batch_of[p]
              ELSE grocery_stores
        /\ batch_of' =
              [batch_of EXCEPT ![p] =
                  IF write /\ insert_ok /\ p = "import_new_stores" THEN <<>> ELSE @]
        /\ at' = [at EXCEPT ![p] = "done"]
        /\ UNCHANGED <<cred_ok, scraped_zipcodes, runs, irun, brun, pvars, svars,
                       zvars, evars, keys_of, pairs_of, streamed>>

InitConcurrent ==
    /\ cred_ok = TRUE
    /\ grocery_stores = <<>>
    /\ scraped_zipcodes = {}
    /\ runs = 0
    /\ InitImportRun
    /\ InitBackfillRun
    /\ InitX
    /\ InitE
    /\ ppc = "none"
    /\ feature = <<>>
    /\ store_record = <<>>
    /\ store_key = <<>>
    /\ update_payload = <<>>
    /\ spc = "idle"
    /\ tasks = <<>>
    /\ results = <<>>
    /\ successful_stores = 0
    /\ failed_stores = 0
    /\ sidx = 0
    /\ at = [p \in ImportRuns |-> "start"]
    /\ keys_of = [p \in ImportRuns |-> {}]
    /\ pairs_of = [p \in ImportRuns |-> {}]
    /\ batch_of = [p \in ImportRuns |-> <<>>]
    /\ streamed = [p \in ImportRuns |-> 0]

NextConcurrent ==
    \/ \E p \in ImportRuns : LoadKeys(p)
    \/ \E p \in ImportRuns, f \in DatasetOf("kroger"), ok \in BOOLEAN :
          StreamFeature(p, f, ok)
    \/ \E p \in ImportRuns, ok \in BOOLEAN : LastBatch(p, ok)

SpecConcurrent == InitConcurrent /\ [][NextConcurrent]_vars

(***************************************************************************)
(* expand_zipcodes_with_neighbors.py: two invocations at the same time     *)
(***************************************************************************)
\* the input lists of the invocations
InputLists == {<< <<"1">> >>, << <<"1">>, <<"2">> >>, << <<"2">> >>}

\* a ZIP code add_neighbor_zipcodes may add, and rows of target_zipcodes
\* that are there for users
NeighborZip == <<"3">>
UserRows ==
    {[zip_code |-> NeighborZip, reason |-> "neighbor", user_count |-> 1]}

\* upsert({...reason: "event_trigger", user_count: 0}, on_conflict="zip_code")
UpsertTrigger(table, zip_code) ==
    {r \in table : r.zip_code # Strip(zip_code)}
        \cup {[zip_code |-> Strip(zip_code), reason |-> "event_trigger",
               user_count |-> 0]}

\* Step 1, one input ZIP at a time
UpsertInput(i) ==
    /\ epc[i] = "upsert"
    /\ upserted' = [upserted EXCEPT ![i] = @ + 1]
    /\ target_table' =
          UpsertTrigger(target_table, eargs[i].input_zipcodes[upserted[i] + 1])
    /\ epc' = [epc EXCEPT ![i] =
                  IF upserted[i] + 1 = Len(eargs[i].input_zipcodes)
                  THEN "neighbors" ELSE @]
    /\ UNCHANGED <<dbvars, irun, brun, pvars, svars, zvars, cvars, eargs,
                   all_zipcodes>>

\* Step 2: the remote procedure adds neighbor rows or raises, and the
\* invocation continues in both cases
AddNeighbors(i, added, rpc_ok) ==
    /\ epc[i] = "neighbors"
    /\ rpc_ok \/ added = {}
    /\ target_table' =
          target_table \cup
            {[zip_code |-> z, reason |-> "neighbor", user_count |-> 0] :
                z \in {n \in added : \A r \in target_table : r.zip_code # n}}
    /\ epc' = [epc EXCEPT ![i] = "query"]
    /\ UNCHANGED <<dbvars, irun, brun, pvars, svars, zvars, cvars, eargs,
                   upserted, all_zipcodes>>

\* Step 3: every row with reason event_trigger or neighbor, and the input
\* list when there is none
QueryTargets(i) ==
    LET data == {r \in target_table : r.reason \in {"event_trigger", "neighbor"}}
        found == IF data # {} THEN {r.zip_code : r \in data}
                 ELSE SeqToSet(eargs[i].input_zipcodes)
    IN  /\ epc[i] = "query"
        /\ all_zipcodes' = [all_zipcodes EXCEPT ![i] = found]
        /\ epc' = [epc EXCEPT ![i] =
                      IF eargs[i].skip_existing /\ found # {} THEN "filter"
                      ELSE IF eargs[i].cleanup THEN "cleanup" ELSE "done"]
        /\ UNCHANGED <<dbvars, irun, brun, pvars, svars, zvars, cvars, eargs,
                       target_table, upserted>>

\* Step 3b: the ZIPs of scraped_zipcodes are filtered out
FilterScraped(i) ==
    LET existing_zips ==
            {r.zip_code : r \in {s \in scraped_zipcodes :
                                    s.zip_code \in all_zipcodes[i]}}
    IN  /\ epc[i] = "filter"
        /\ all_zipcodes' = [all_zipcodes EXCEPT ![i] = @ \ existing_zips]
        /\ epc' = [epc EXCEPT ![i] = IF eargs[i].cleanup THEN "cleanup" ELSE "done"]
        /\ UNCHANGED <<dbvars, irun, brun, pvars, svars, zvars, cvars, eargs,
                       target_table, upserted>>

\* Step 4, first delete: every row with reason event_trigger
DeleteTriggers(i) ==
    /\ epc[i] = "cleanup"
    /\ target_table' = {r \in target_table : r.reason # "event_trigger"}
    /\ epc' = [epc EXCEPT ![i] = "cleanup_neighbors"]
    /\ UNCHANGED <<dbvars, irun, brun, pvars, svars, zvars, cvars, eargs,
                   upserted, all_zipcodes>>

\* Step 4, second delete: the neighbor rows no user has, and the return
DeleteNeighbors(i) ==
    /\ epc[i] = "cleanup_neighbors"
    /\ target_table' =
          {r \in target_table : ~(r.reason = "neighbor" /\ r.user_count = 0)}
    /\ epc' = [epc EXCEPT ![i] = "done"]
    /\ UNCHANGED <<dbvars, irun, brun, pvars, svars, zvars, cvars, eargs,
                   upserted, all_zipcodes>>

\* two invocations start, one of them at least with cleanup
InitExpand ==
    /\ cred_ok = TRUE
    /\ grocery_stores = <<>>
    /\ scraped_zipcodes \in {{}, {[zip_code |-> <<"1">>, store_count |-> 1]}}
    /\ runs = 0
    /\ InitImportRun
    /\ InitBackfillRun
    /\ InitX
    /\ InitC
    /\ ppc = "none"
    /\ feature = <<>>
    /\ store_record = <<>>
    /\ store_key = <<>>
    /\ update_payload = <<>>
    /\ spc = "idle"
    /\ tasks = <<>>
    /\ results = <<>>
    /\ successful_stores = 0
    /\ failed_stores = 0
    /\ sidx = 0
    /\ epc = [i \in Invocations |-> "upsert"]
    /\ eargs \in [Invocations ->
                    [input_zipcodes : InputLists, cleanup : BOOLEAN,
                     skip_existing : BOOLEAN]]
    /\ \E i \in Invocations : eargs[i].cleanup
    /\ target_table \in SUBSET UserRows
    /\ upserted = [i \in Invocations |-> 0]
    /\ all_zipcodes = [i \in Invocations |-> {}]

NextExpand ==
    \/ \E i \in Invocations : UpsertInput(i)
    \/ \E i \in Invocations, added \in SUBSET {NeighborZip}, ok \in BOOLEAN :
          AddNeighbors(i, added, ok)
    \/ \E i \in Invocations : QueryTargets(i)
    \/ \E i \in Invocations : FilterScraped(i)
    \/ \E i \in Invocations : DeleteTriggers(i)
    \/ \E i \in Invocations : DeleteNeighbors(i)

SpecExpand == InitExpand /\ [][NextExpand]_vars

(***************************************************************************)
(* Claims about import runs (checked under SpecImport)                     *)
(***************************************************************************)
\* the step processes feature f of the stream
Processes(f) ==
    \E ok \in BOOLEAN : ImportFeature(f, ok) \/ GeoFeature(f, ok)

NoWrite ==
    /\ stores_to_insert' = stores_to_insert
    /\ grocery_stores' = grocery_stores
    /\ insert_calls' = insert_calls
    /\ accepted' = accepted

\* C1 as stated: a feature whose (brand, normalized name, 5-digit ZIP) was
\* met earlier in the run increments duplicates_skipped by 1 and writes
\* nothing.
C1_EveryLaterOneIsDuplicate ==
    [][\A f \in Features :
          (Processes(f) /\ CompositeKey(brand_enum, f.name, f.postcode) \in seen)
              => /\ stats'.duplicates_skipped = stats.duplicates_skipped + 1
                 /\ NoWrite]_vars

\* C1 amended: once a feature has been accepted for insertion in a run, every
\* later feature of the run with the same (brand, normalized name, 5-digit
\* ZIP) increments duplicates_skipped by 1, is not accepted and writes nothing.
C1_AcceptedOnlyOnce ==
    [][\A f \in Features :
          (Processes(f) /\ CompositeKey(brand_enum, f.name, f.postcode) \in accepted)
              => /\ stats'.duplicates_skipped = stats.duplicates_skipped + 1
                 /\ NoWrite]_vars

\* C1 witness: a run over no existing rows met one key twice, kept the first
\* feature and skipped the second: new_stores = 1, duplicates_skipped = 1.
C1_Witness ==
    /\ pc = "report" /\ runs = 1
    /\ Cardinality(seen) = 1 /\ seen = accepted
    /\ stats.new_stores = 1 /\ stats.duplicates_skipped = 1
    /\ Len(grocery_stores) = 1

RowKey(r) == CompositeKey(r.store_enum, r.name, r.zip_code)

\* C2: the persisted table never holds two rows with the same composite key
\* (brand, lower-cased trimmed name, 5-digit ZIP).
C2_UniqueCompositeKey ==
    \A i, j \in DOMAIN grocery_stores :
        i # j => RowKey(grocery_stores[i]) # RowKey(grocery_stores[j])

\* C2 witness: a second run met a feature whose key an earlier run had
\* persisted under another spelling, and skipped it.
C2_Witness ==
    /\ runs = 2 /\ pc = "report"
    /\ stats.duplicates_skipped = 1 /\ accepted = {}
    /\ \E i \in DOMAIN grocery_stores :
          /\ RowKey(grocery_stores[i]) \in seen
          /\ grocery_stores[i].name = <<"k", " ">>

\* C3 as stated: for every (brand, ZIP) at most one persisted store has a
\* null street address.
C3_OneAddresslessStorePerBrandZip ==
    \A i, j \in DOMAIN grocery_stores :
        (/\ i # j
         /\ grocery_stores[i].store_enum = grocery_stores[j].store_enum
         /\ grocery_stores[i].zip_code = grocery_stores[j].zip_code
         /\ grocery_stores[i].address = NULL)
            => grocery_stores[j].address # NULL

FailedCalls == {i \in DOMAIN insert_calls : ~insert_calls[i].ok}

\* C9 as stated: a failed batch insert increments errors, and no record of
\* the failed batch is submitted to storage again in the run.
C9_FailedBatchAbandoned ==
    /\ stats.errors >= Cardinality(FailedCalls)
    /\ \A i \in FailedCalls : \A j \in DOMAIN insert_calls :
          i < j => SeqToSet(insert_calls[i].batch)
                      \cap SeqToSet(insert_calls[j].batch) = {}

\* C10 as stated: no failure aborts a run before its statistics report.
C10_NoFailureAbortsRun == pc # "aborted"

(***************************************************************************)
(* Claims about backfill runs                                              *)
(***************************************************************************)
Ids == DOMAIN grocery_stores

SelectedIds == SeqToSet(missing_data)

UpdatedIds == {batch_updates[j].id : j \in DOMAIN batch_updates}

\* C4: over backfill runs one after another a store's failure_count never
\* exceeds 3, and a store whose failure_count has reached 3 is not selected
\* by a later run, is in no queued update, is not passed to the increment
\* call, and its row is never changed again.
C4_FailureCountCapped ==
    [][\A i \in Ids :
          /\ grocery_stores'[i].failure_count <= MAX_FAILURES
          /\ grocery_stores[i].failure_count >= MAX_FAILURES =>
                /\ grocery_stores'[i] = grocery_stores[i]
                /\ i \notin SeqToSet(missing_data')
                /\ i \notin {batch_updates'[j].id : j \in DOMAIN batch_updates'}
                /\ i \notin rpc_ids']_vars

\* a later run has selected stores and completed while a store that reached
\* 3 failures in an earlier run stayed out of it
C4_Witness ==
    /\ runs = 2 /\ bpc = "report" /\ missing_data # <<>>
    /\ \E i \in Ids : /\ grocery_stores[i].failure_count = MAX_FAILURES
                      /\ before[i].failure_count = MAX_FAILURES
                      /\ i \notin SelectedIds

MarkerHolders(table, b, zip_code) ==
    {i \in DOMAIN table : /\ table[i].store_enum = b
                          /\ table[i].zip_code = zip_code
                          /\ table[i].address = AddressMarker(zip_code)}

IsCentroidUpdate(u) ==
    /\ u.id \notin stores_with_existing_centroids
    /\ u.geom = <<"POINT(", Location(grocery_stores[u.id].zip_code).lng, " ",
                  Location(grocery_stores[u.id].zip_code).lat, ")">>

\* the queued updates before position j that give the marker to a store of
\* the same brand and ZIP as update j
EarlierMarkerUpdates(j) ==
    {h \in 1..(j - 1) :
        /\ batch_updates[h].set_address
        /\ grocery_stores[batch_updates[h].id].store_enum =
              grocery_stores[batch_updates[j].id].store_enum
        /\ grocery_stores[batch_updates[h].id].zip_code =
              grocery_stores[batch_updates[j].id].zip_code}

\* C5: no two stores of one brand in one ZIP hold the marker
\* "ZIP <zip> (centroid)"; a newly geocoded store is given the marker exactly
\* when no row of the table as the run found it and no store handled earlier
\* in the run holds it for that brand and ZIP, and otherwise its update
\* carries the geometry only.
C5_MarkerUniquePerBrandZip ==
    /\ \A i \in Ids :
          Cardinality(MarkerHolders(grocery_stores, grocery_stores[i].store_enum,
                                    grocery_stores[i].zip_code)) <= 1
    /\ \A j \in DOMAIN batch_updates :
          LET u == batch_updates[j]
              row == grocery_stores[u.id]
              held == \/ MarkerHolders(before, row.store_enum, row.zip_code) # {}
                      \/ EarlierMarkerUpdates(j) # {}
          IN  IsCentroidUpdate(u) =>
                /\ u.set_address <=> ~held
                /\ u.set_address => u.address = AddressMarker(row.zip_code)

\* two stores of one brand and ZIP went through the fallback of one run:
\* one holds the marker, the other has the centroid geometry and no marker
C5_Witness ==
    /\ bpc = "report"
    /\ \E i, k \in Ids :
          /\ i # k
          /\ grocery_stores[i].store_enum = grocery_stores[k].store_enum
          /\ grocery_stores[i].zip_code = grocery_stores[k].zip_code
          /\ grocery_stores[i].address = AddressMarker(grocery_stores[i].zip_code)
          /\ grocery_stores[k].geom = grocery_stores[i].geom
          /\ grocery_stores[k].address = NULL
          /\ {i, k} \subseteq UpdatedIds

\* C6: when a backfill run reports, every store its initial query selected
\* has exactly one outcome (a queued precise or centroid update, a kept
\* centroid, or a complete failure) and the four reported totals add up to
\* the number of selected stores.
C6_EverySelectedStoreHasOneOutcome ==
    bpc = "report" =>
        /\ \A i \in SelectedIds :
              \/ i \in UpdatedIds
              \/ i \in centroid_store_ids
              \/ i \in failed_store_ids
        /\ bstats.all_the_places + bstats.centroid_upgrades
              + bstats.zip_fallback + bstats.failed = Len(missing_data)

UpgradeUpdates ==
    {j \in DOMAIN batch_updates :
        batch_updates[j].id \in stores_with_existing_centroids}

\* C7: a store that held a centroid marker when the run selected it and is
\* matched by a feature of its brand's dataset has one queued update, which
\* carries the feature's coordinates (longitude first) and no address; each
\* such store is counted once in centroid_upgrades and is neither in the
\* centroid set nor in the failed set, so it is not passed to the increment
\* call; once the updates are executed its geometry is the feature's.
C7_CentroidUpgrade ==
    /\ bstats.centroid_upgrades = Cardinality(UpgradeUpdates)
    /\ \A j \in UpgradeUpdates :
          LET u == batch_updates[j]
          IN  /\ u.geom = <<"POINT(", "-86", " ", "40", ")">>
              /\ ~u.set_address
              /\ \A h \in UpgradeUpdates : batch_updates[h].id = u.id => h = j
              /\ u.id \notin centroid_store_ids \cup failed_store_ids
              /\ u.id \notin rpc_ids
              /\ bpc \in {"increment", "report"} =>
                    grocery_stores[u.id].geom = u.geom

\* a completed run upgraded a store that held a centroid marker
C7_Witness ==
    /\ bpc = "report"
    /\ \E j \in UpgradeUpdates :
          /\ HasCentroid(before[batch_updates[j].id].address)
          /\ before[batch_updates[j].id].geom # grocery_stores[batch_updates[j].id].geom
    /\ bstats.centroid_upgrades = 1

CentroidUpdates == {j \in DOMAIN batch_updates : IsCentroidUpdate(batch_updates[j])}

\* C8 as stated: after a completed run every store with null geometry that
\* fell through to the fallback and whose ZIP was geocoded has the centroid
\* geometry, the marker as its address, one more failure, and is counted in
\* zip_fallback.
C8_CentroidMarkerAndFailureAlways ==
    bpc = "report" =>
        /\ bstats.zip_fallback = Cardinality(CentroidUpdates)
        /\ \A j \in CentroidUpdates :
              LET u == batch_updates[j]
                  row == grocery_stores[u.id]
              IN  /\ row.geom = u.geom
                  /\ row.address = AddressMarker(row.zip_code)
                  /\ row.failure_count = before[u.id].failure_count + 1

\* C8: after a completed run every store with null geometry that fell
\* through to the fallback and whose ZIP was geocoded has the centroid
\* geometry (longitude first) and is counted once in zip_fallback; its
\* address is the marker unless the marker was already held for its brand
\* and ZIP, in which case its address is unchanged; it is passed to the
\* increment call, and its failure_count is one higher when that call
\* succeeded and unchanged when it failed.
C8_CentroidFallback ==
    bpc = "report" =>
        /\ bstats.zip_fallback = Cardinality(CentroidUpdates)
        /\ \A j \in CentroidUpdates :
              LET u == batch_updates[j]
                  row == grocery_stores[u.id]
                  loc == Location(row.zip_code)
              IN  /\ before[u.id].geom = NULL
                  /\ row.geom = <<"POINT(", loc.lng, " ", loc.lat, ")">>
                  /\ row.address = IF u.set_address THEN AddressMarker(row.zip_code)
                                   ELSE before[u.id].address
                  /\ ~u.set_address =>
                        \E k \in Ids \ {u.id} :
                            k \in MarkerHolders(grocery_stores, row.store_enum,
                                                row.zip_code)
                  /\ u.id \in rpc_ids
                  /\ row.failure_count =
                        before[u.id].failure_count
                            + (IF rpc_result = "ok" THEN 1 ELSE 0)

\* a completed run gave a store the centroid, the marker and one more failure
C8_Witness ==
    /\ bpc = "report" /\ rpc_result = "ok"
    /\ \E j \in CentroidUpdates :
          LET u == batch_updates[j]
          IN  /\ u.set_address
              /\ grocery_stores[u.id].address =
                    AddressMarker(grocery_stores[u.id].zip_code)
              /\ grocery_stores[u.id].failure_count =
                    before[u.id].failure_count + 1
    /\ bstats.zip_fallback >= 1

(***************************************************************************)
(* Claims about dataset fetches                                            *)
(***************************************************************************)
\* the step is the iteration header of a brand with a spider mapping
Fetches == brands_left' # brands_left /\ fetch_status' # "none"

\* C11: a brand whose dataset fetch answers 404 is skipped with the errors
\* counter unchanged, no insert call and no change of either table, and the
\* run goes on with the brands that are left.
C11_NotFoundLeavesErrorsUnchanged ==
    [][Fetches /\ fetch_status' = "http_404" =>
          /\ stats'.errors = stats.errors
          /\ grocery_stores' = grocery_stores
          /\ scraped_zipcodes' = scraped_zipcodes
          /\ insert_calls' = insert_calls
          /\ pc' = "brands"]_vars

FetchFailed == fetch_status \in {"http_5xx", "network"}

\* C12: a server error or a network failure of one brand's dataset fetch is
\* followed by the recovery wait and by the next brand; when the run reports,
\* every brand in scope has been iterated; and a run in which a fetch failed
\* that way reaches its final report.
C12_FetchFailureRunReportsAnyway ==
    /\ [][Fetches /\ FetchFailed' => slept' > 0 /\ pc' = "brands"]_vars
    /\ [](pc = "report" => brands_left = {})
    /\ \A r \in 1..MaxRuns :
          (runs = r /\ FetchFailed) ~> (runs = r /\ pc = "report")

(***************************************************************************)
(* Claims about batches and tracking rows                                  *)
(***************************************************************************)
\* C13: the accumulator never holds more than the batch size, no insert call
\* carries more than the batch size, and nothing is left in the accumulator
\* when the run reports (run_geoscraper does not reset its list after the
\* last insert_batch: there, nothing left means every record was submitted).
C13_BatchSizeRespected ==
    /\ Len(stores_to_insert) <= BATCH_SIZE
    /\ \A c \in DOMAIN insert_calls : Len(insert_calls[c].batch) <= BATCH_SIZE
    /\ pc = "report" =>
          IF script = "import" THEN stores_to_insert = <<>>
          ELSE dry_run \/ \A i \in DOMAIN stores_to_insert :
                             \E c \in DOMAIN insert_calls :
                                 /\ insert_calls[c].ok
                                 /\ stores_to_insert[i] \in
                                       SeqToSet(insert_calls[c].batch)

\* the records the run has persisted: the batches of its successful calls
RECURSIVE InsertedBy(_)
InsertedBy(calls) ==
    IF calls = <<>> THEN <<>>
    ELSE (IF Head(calls).ok THEN Head(calls).batch ELSE <<>>) \o InsertedBy(Tail(calls))

InsertedInZip(zip_code) ==
    Cardinality({i \in DOMAIN InsertedBy(insert_calls) :
                    InsertedBy(insert_calls)[i].zip_code = zip_code})

InsertedZips ==
    {InsertedBy(insert_calls)[i].zip_code : i \in DOMAIN InsertedBy(insert_calls)}

\* C14: when an import run reports, the tracking table holds for every ZIP in
\* which the run inserted a store one row with the number of stores the run
\* inserted there, and the run's tracking dict (the only ZIPs it upserts)
\* has no entry for a ZIP in which it inserted nothing.
C14_OneTrackingRowPerInsertedZip ==
    pc = "report" =>
        /\ \A z \in InsertedZips :
              [zip_code |-> z, store_count |-> InsertedInZip(z)] \in scraped_zipcodes
        /\ ~dry_run =>
              \A j \in DOMAIN zips_with_stores :
                  zips_with_stores[j].zip \in InsertedZips

\* C15: between any two steps of a run that writes, every ZIP of a batch the
\* run has committed has a tracking row, so that stopping the run there
\* leaves no persisted store of the run without one.
C15_TrackingFollowsEveryCommit ==
    \A z \in InsertedZips : \E r \in scraped_zipcodes : r.zip_code = z

(***************************************************************************)
(* Claims about reruns                                                     *)
(***************************************************************************)
PersistedKeys == {RowKey(grocery_stores[i]) : i \in DOMAIN grocery_stores}

\* no step of an import run, and no kill, removes or changes a persisted row
PersistedStays ==
    /\ Len(grocery_stores') >= Len(grocery_stores)
    /\ SubSeq(grocery_stores', 1, Len(grocery_stores)) = grocery_stores

\* a feature whose key is persisted is not accepted and writes nothing
PersistedNotInsertedAgain ==
    \A f \in Features :
        (Processes(f) /\ CompositeKey(brand_enum, f.name, f.postcode) \in PersistedKeys)
            => NoWrite

AllInsertsSucceeded == \A c \in DOMAIN insert_calls : insert_calls[c].ok

\* when the run reports, every record it accepted is persisted, once, and
\* new_stores counts exactly those
NothingLost ==
    /\ accepted \subseteq PersistedKeys
    /\ stats.new_stores = Cardinality(accepted)
    /\ Cardinality(PersistedKeys) = Len(grocery_stores)

ImportProcesses(f) == \E ok \in BOOLEAN : ImportFeature(f, ok)

Restricted == target_zipcodes # ALL_ZIPS

OutsideTarget(f) == NormZip(f.postcode) \notin target_zipcodes

\* with target entries only features of the target set are taken; with all
\* ZIP codes requested no feature is turned away for its ZIP
FilterFollowsMode ==
    \A f \in Features :
        ImportProcesses(f) =>
            /\ (Restricted /\ OutsideTarget(f)) => NoWrite
            /\ ~Restricted => stats'.wrong_zipcode = stats.wrong_zipcode

\* C17 as stated: import_new_stores restricts features to the target ZIP set
\* when target entries exist and runs unrestricted when all ZIP codes are
\* requested or when the target table has no entries.
C17_UnrestrictedWhenNoTargets ==
    [][/\ FilterFollowsMode
       /\ ImportNoTargets => (pc' = "brands" /\ ~Restricted')]_vars

\* C17: import_new_stores restricts features to the target ZIP set when
\* target entries exist and runs unrestricted when all ZIP codes are requested
\* (or the target query raises); with a target table that has no entries the
\* run ends at once: it processes no brand and writes nothing.
C17_NoTargetsNoRun ==
    [][/\ FilterFollowsMode
       /\ ImportNoTargets =>
             /\ RunOver'
             /\ nfeat' = nfeat
             /\ UNCHANGED <<grocery_stores, scraped_zipcodes>>]_vars

\* a restricted run of import_new_stores turned one feature away for its ZIP
\* and accepted another
C17_Witness ==
    /\ script = "import" /\ Restricted /\ pc = "features"
    /\ stats.wrong_zipcode = 1
    /\ accepted # {}

\* a feature the loop skips before it looks at the target set
Nameless(f) == f.name = <<>> \/ NormZip(f.postcode) = <<>>

\* dropped before key matching: no counter but wrong_zipcode moves, the
\* known-key set stays, nothing is accumulated or inserted
DroppedForZip(n) ==
    /\ stats'.wrong_zipcode = stats.wrong_zipcode + n
    /\ stats'.duplicates_skipped = stats.duplicates_skipped
    /\ stats'.no_geometry = stats.no_geometry
    /\ stats'.new_stores = stats.new_stores
    /\ existing_stores' = existing_stores
    /\ existing_null_address_pairs' = existing_null_address_pairs
    /\ NoWrite

\* C18 as stated: in restricted mode every feature whose normalized ZIP is
\* not in the target set increments wrong_zipcode by 1 and is dropped before
\* key matching.
C18_EveryOutsideFeatureCounted ==
    [][\A f \in Features :
          (Processes(f) /\ Restricted /\ OutsideTarget(f)) => DroppedForZip(1)]_vars

\* C18: in restricted mode every feature that has a name and a ZIP, and whose
\* normalized ZIP is not in the target set, increments wrong_zipcode by 1 and
\* is dropped before key matching: no other counter moves, its key is not
\* added to the known keys, it is not inserted. A feature without name or
\* without ZIP is skipped before the filter and counted nowhere.
C18_OutsideTargetDropped ==
    [][\A f \in Features :
          (Processes(f) /\ Restricted /\ OutsideTarget(f)) =>
              DroppedForZip(IF Nameless(f) THEN 0 ELSE 1)]_vars

\* a restricted run of run_geoscraper met a store of a ZIP outside the target
\* set: the only key it has seen is that store's, and it accepted nothing
C18_Witness ==
    /\ script = "geo" /\ Restricted /\ pc = "features"
    /\ stats.wrong_zipcode = 1
    /\ \E k \in seen : k[3] \notin target_zipcodes
    /\ accepted = {} /\ existing_stores = {}

(***************************************************************************)
(* Claims about the dry run                                                *)
(***************************************************************************)
GeoProcesses(f) == \E ok \in BOOLEAN : GeoFeature(f, ok)

\* the three skip counters move by the outcome of the feature alone
CountedByOutcome(f) ==
    LET o == GeoOutcome(f, brand_enum)
        one(x) == IF o = x THEN 1 ELSE 0
    IN  /\ stats'.duplicates_skipped = stats.duplicates_skipped + one("duplicate")
        /\ stats'.no_geometry = stats.no_geometry + one("no_geometry")
        /\ stats'.wrong_zipcode = stats.wrong_zipcode + one("wrong_zipcode")
        /\ (accepted' # accepted) <=> o = "accepted"

\* C19: a dry run writes neither the store table nor the tracking table, and
\* it reports the statistics of a writing run whose inserts all succeed: the
\* skip counters follow the outcome of each feature whatever the mode, and
\* new_stores is the number of accepted records in both.
C19_DryRunCountsWithoutWriting ==
    /\ [][dry_run => /\ UNCHANGED <<grocery_stores, scraped_zipcodes>>
                     /\ insert_calls' = <<>>]_vars
    /\ [][\A f \in Features : GeoProcesses(f) => CountedByOutcome(f)]_vars
    /\ [](script = "geo" /\ pc = "report" /\ AllInsertsSucceeded
             => stats.new_stores = Cardinality(accepted))

\* a dry run reported two new stores and one duplicate and left both tables
\* empty
C19_Witness ==
    /\ script = "geo" /\ dry_run /\ pc = "report"
    /\ stats.new_stores = 2 /\ stats.duplicates_skipped = 1
    /\ grocery_stores = <<>> /\ scraped_zipcodes = {}

(***************************************************************************)
(* Claims about the parsers (checked under SpecParse)                      *)
(***************************************************************************)
Parsed == ppc \in {"parse_store_from_feature", "import_new_stores"}

\* the name is empty after trimming, the postal code is empty after the +4
\* suffix is stripped, or the coordinates are not a 2-element pair
Rejectable(props) ==
    \/ Strip(NameOf(props)) = <<>>
    \/ NormZip(props.postcode) = <<>>
    \/ props.coords = <<>>
    \/ Len(props.coords) # 2

\* C21: the parsers yield no record for a feature whose name is empty after
\* trimming, whose postal code is empty after the +4 suffix is stripped or
\* whose coordinates are not a 2-element pair, and a record for every other
\* feature.
C21_RecordUnlessRejectable ==
    Parsed => (store_record = <<>> <=> Rejectable(feature.props))

\* the feature {name: Kroger, postcode: 47906-1234, street: Main St,
\* housenumber: 100, coordinates [-86.9, 40.4]}
KrogerOnMainSt ==
    Props(<<"Kroger">>, ABSENT, <<"47906", "-", "1234">>, <<"Main St">>, <<"100">>,
          <<"-86.9", "40.4">>)

\* C22: the record of an accepted feature has "<number> <street>" as address
\* when house number and street are both present, the street when only the
\* street is, and null otherwise; its ZIP is the 5-digit form and its
\* failure_count is 0. The Kroger feature of 47906-1234, 100 Main St, at
\* [-86.9, 40.4], gives one record with address "100 Main St", zip "47906"
\* and geometry "POINT(-86.9 40.4)".
C22_AddressZipAndFailureCount ==
    (Parsed /\ store_record # <<>>) =>
        LET r == store_record[1]
            p == feature.props
        IN  /\ Len(store_record) = 1
            /\ r.address =
                  IF p.housenumber = <<"100">> /\ p.street = <<"Main St">>
                  THEN <<"100", " ", "Main St">>
                  ELSE IF p.street = <<"Main St">> THEN <<"Main St">>
                  ELSE NULL
            /\ r.zip_code = <<"47906">>
            /\ r.failure_count = 0
            /\ p = KrogerOnMainSt =>
                  /\ r.store_enum = "kroger"
                  /\ r.name = <<"Kroger">>
                  /\ r.geom = <<"POINT(", "-86.9", " ", "40.4", ")">>

\* the inline parser of import_new_stores has turned the Kroger feature into
\* its record
C22_Witness ==
    /\ ppc = "import_new_stores"
    /\ feature.props = KrogerOnMainSt
    /\ Len(store_record) = 1
    /\ store_record[1].address = <<"100", " ", "Main St">>

\* C23: every point literal puts longitude before latitude: coordinates
\* [-86.9, 40.4] give "POINT(-86.9 40.4)" in the import parsers and in a
\* precise backfill match, and a geocoded centroid {lat, lng} gives
\* "POINT(<lng> <lat>)".
C23_LongitudeFirst ==
    LET lon == feature.props.coords[1]
        lat == feature.props.coords[2]
    IN  /\ (Parsed /\ store_record # <<>>) =>
              /\ lon = "-86.9" /\ lat = "40.4"
              /\ store_record[1].geom = <<"POINT(", "-86.9", " ", "40.4", ")">>
        /\ ppc = "precise_match" =>
              update_payload[1].geom = <<"POINT(", lon, " ", lat, ")">>
        /\ ppc = "zip_fallback" =>
              update_payload[1].geom =
                  <<"POINT(", feature.location.lng, " ", feature.location.lat, ")">>

\* the centroid {lat: 41, lng: -87} has been written as "POINT(-87 41)"
C23_Witness ==
    /\ ppc = "zip_fallback"
    /\ feature.location = [lat |-> "41", lng |-> "-87"]
    /\ update_payload = <<[geom |-> <<"POINT(", "-87", " ", "41", ")">>]>>

\* C24: normalizing a normalized ZIP returns it unchanged, "47906-1234" and
\* "47906" both normalize to "47906", and build_store_key returns
\* "<brand>:<lower-cased trimmed name>:<5-digit zip>", the same key for inputs
\* that differ only in the +4 suffix of the ZIP or in the case and surrounding
\* whitespace of the name.
C24_KeyIgnoresSuffixCaseAndSpace ==
    LET p == feature.props
        zip_code == NormZip(p.postcode)
    IN  /\ NormZip(zip_code) = zip_code
        /\ p.postcode \in {<<"47906">>, <<"47906", "-", "1234">>} => zip_code = <<"47906">>
        /\ (/\ ppc = "build_store_key"
            /\ NameOf(p) \in {<<"Kroger">>, <<" ", "KROGER", " ">>}
            /\ zip_code = <<"47906">>)
              => store_key = <<"kroger", ":", "kroger", ":", "47906">>

\* build_store_key has been called with " KROGER " and "47906-1234"
C24_Witness ==
    /\ ppc = "build_store_key"
    /\ NameOf(feature.props) = <<" ", "KROGER", " ">>
    /\ feature.props.postcode = <<"47906", "-", "1234">>
    /\ store_key = <<"kroger", ":", "kroger", ":", "47906">>

(***************************************************************************)
(* Claims about the grocery search (checked under SpecSearch)              *)
(***************************************************************************)
\* the store's scraper returned items
Succeeded(i) == tasks[i].kind \in {"list", "dict"} /\ tasks[i].error = "" /\ tasks[i].n > 0

ItemsOf(store) == Cardinality({k \in DOMAIN results : results[k].provider = store})

\* C25: the per-store scrapers are independent: however the scrapers of the
\* other stores end, the search answers, the items of every store whose
\* scraper returned some are in the results, and every store is counted
\* exactly once, in successful_stores or in failed_stores.
C25_StoresIsolatedAndCountedOnce ==
    /\ spc # "http_500"
    /\ spc = "done" =>
          /\ \A i \in DOMAIN stores : Succeeded(i) => ItemsOf(stores[i]) = tasks[i].n
          /\ successful_stores + failed_stores = Len(stores)

(***************************************************************************)
(* Claims about the precise matches of a backfill run                      *)
(***************************************************************************)
\* the stores of the current brand in the bucket of ZIP z, as the brand
\* loop built it
BucketAtStart(z) ==
    {id \in SeqToSet(queue[bidx].stores) : NormZip(grocery_stores[id].zip_code) = z}

\* the queued updates of the stores of that bucket
PreciseMatches(z) ==
    {j \in DOMAIN batch_updates : batch_updates[j].id \in BucketAtStart(z)}

\* the ZIP of the feature a step has just streamed, if it has a point
StreamedValid(z) == valid_features'[z] = valid_features[z] + 1

MatchesAreTheMinimum ==
    bpc = "features" =>
        \A z \in FeatureZips :
            Cardinality(PreciseMatches(z)) =
                Min(Cardinality(BucketAtStart(z)), valid_features[z])

OneUpdatePerStore ==
    bpc \in {"brands", "features"} =>
        \A j, k \in DOMAIN batch_updates :
            batch_updates[j].id = batch_updates[k].id => j = k

FirstOfBucketMatched ==
    \A z \in FeatureZips :
        (bpc = "features" /\ StreamedValid(z)) =>
            LET hit == {i \in DOMAIN stores_by_zip : stores_by_zip[i].k = z}
            IN  IF hit = {} THEN UNCHANGED <<batch_updates, stores_by_zip>>
                ELSE LET i == CHOOSE j \in hit : TRUE
                         bucket == stores_by_zip[i].stores
                         after == {j \in DOMAIN stores_by_zip' :
                                      stores_by_zip'[j].k = z}
                     IN  /\ Len(batch_updates') = Len(batch_updates) + 1
                         /\ SubSeq(batch_updates', 1, Len(batch_updates))
                               = batch_updates
                         /\ batch_updates'[Len(batch_updates')].id = Head(bucket)
                         /\ batch_updates'[Len(batch_updates')].geom
                               \in {PointOf(f.coords) :
                                      f \in {g \in Features :
                                                /\ ~BadCoords(g.coords)
                                                /\ NormZip(g.postcode) = z}}
                         /\ IF Tail(bucket) = <<>> THEN after = {}
                            ELSE \A j \in after :
                                    stores_by_zip'[j].stores = Tail(bucket)

\* C26: while a brand's features are streamed, a feature with a point whose
\* ZIP still has a store in its bucket queues one update, for the first store
\* of the bucket, and takes that store out of the bucket; no store is queued
\* twice, and in every ZIP the number of matches is the minimum of the number
\* of stores of the bucket and the number of features with a point streamed
C26_FirstOfBucketOncePerFeature ==
    /\ []MatchesAreTheMinimum
    /\ []OneUpdatePerStore
    /\ [][FirstOfBucketMatched]_vars

\* two stores of one ZIP matched in order while a third feature with a point
\* of that ZIP found the bucket empty
C26_Witness ==
    /\ bpc = "features"
    /\ \E z \in FeatureZips :
          /\ Cardinality(BucketAtStart(z)) = 2
          /\ valid_features[z] = 3
          /\ Len(batch_updates) = 2
          /\ batch_updates[1].id = queue[bidx].stores[1]
          /\ batch_updates[2].id = queue[bidx].stores[2]
(***************************************************************************)
(* Claims about the ZIP centroid fallback of a backfill run                *)
(***************************************************************************)
\* the stores the fallback loop geocoded for: with a ZIP, without a centroid
Geocoded ==
    {i \in (failed_store_ids \cup centroid_store_ids)
             \ stores_with_existing_centroids :
        grocery_stores[i].zip_code \notin {NULL, <<>>}}

\* the update the fallback queued for a store, if any
UpdatesOf(i) == {j \in DOMAIN batch_updates : batch_updates[j].id = i}

\* C27: in one backfill run geocode_zip_code is called at most once per ZIP,
\* whether the first call gave coordinates or not; the cache holds the result
\* of that call, and every store of the ZIP is settled by it: failed when it
\* gave nothing, the centroid of that result otherwise
C27_OneGeocodeCallPerZip ==
    /\ \A j, k \in DOMAIN geocode_calls :
          geocode_calls[j] = geocode_calls[k] => j = k
    /\ {e.zip : e \in zip_cache} = SeqToSet(geocode_calls)
    /\ \A i \in Geocoded :
          LET entries == Cached(grocery_stores[i].zip_code)
          IN  /\ Cardinality(entries) = 1
              /\ \A e \in entries :
                    IF e.coords = NoLocation
                    THEN i \in failed_store_ids /\ UpdatesOf(i) = {}
                    ELSE /\ i \in centroid_store_ids
                         /\ \A j \in UpdatesOf(i) :
                               batch_updates[j].geom = PointOfLocation(e.coords)
                         /\ UpdatesOf(i) # {}

\* two stores of one ZIP both failed on a single call that gave nothing
C27_Witness ==
    /\ bpc = "fallback" /\ todo = <<>>
    /\ Len(geocode_calls) = 1
    /\ Cardinality(Geocoded) = 2
    /\ Geocoded \subseteq failed_store_ids
    /\ \A i \in Geocoded : grocery_stores[i].zip_code = geocode_calls[1]
\* the fallback loop of the run is over
FallbackDone == (bpc = "fallback" /\ todo = <<>>) \/ bpc \in {"increment", "report", "aborted"}

\* the updates the brand loop queued come first in batch_updates
PreciselyMatched ==
    {batch_updates[j].id :
        j \in {k \in DOMAIN batch_updates :
                  k <= bstats.all_the_places + bstats.centroid_upgrades}}

\* the selected stores that held a centroid marker when the run selected them
\* and that the brand loop did not match
KeptCentroids ==
    {i \in SelectedIds \ PreciselyMatched : HasCentroid(before[i].address)}

KeptCentroidUntouched ==
    FallbackDone =>
        \A i \in KeptCentroids :
            /\ UpdatesOf(i) = {}
            /\ grocery_stores[i].geom = before[i].geom
            /\ grocery_stores[i].address = before[i].address
            /\ i \in centroid_store_ids
            /\ rpc_result # "none" => i \in rpc_ids

\* the fallback loop handles a store that held a centroid marker
KeepsCentroid ==
    /\ bpc = "fallback" /\ todo # <<>> /\ todo' = Tail(todo)
    /\ HasCentroid(before[Head(todo).id].address)

NoCallForKeptCentroid ==
    KeepsCentroid =>
        /\ UNCHANGED <<geocode_calls, zip_cache, batch_updates, grocery_stores>>
        /\ centroid_store_ids' = centroid_store_ids \cup {Head(todo).id}

\* C28: a selected store that held a centroid marker and that the brand loop
\* did not match gets no update in the run (no update queued, geometry and
\* address as before, no call of geocode_zip_code when the fallback loop
\* reaches it) and is among the ids whose failure_count the run increments
C28_KeptCentroidCountedNotUpdated ==
    /\ []KeptCentroidUntouched
    /\ [][NoCallForKeptCentroid]_vars

\* a run that kept a centroid and passed it to the increment call
C28_Witness ==
    /\ bpc = "report"
    /\ rpc_result = "ok"
    /\ \E i \in KeptCentroids : i \in rpc_ids /\ grocery_stores[i].geom # NULL
\* the selected stores the run found no precise location for: the complete
\* failures and the kept or newly assigned centroids
Unmatched == SelectedIds \ PreciselyMatched

\* every queued update is in the table
UpdatesExecuted ==
    \A j \in DOMAIN batch_updates :
        grocery_stores[batch_updates[j].id].geom = batch_updates[j].geom

\* C29: a backfill run that reaches its report has executed every queued
\* update and has made the increment call with exactly the selected stores it
\* found no precise location for (complete failures, kept centroids, newly
\* assigned centroids), none of them precisely matched, and has made no call
\* when there is no such store
C29_OneIncrementCallForEveryUnmatched ==
    bpc = "report" =>
        /\ UpdatesExecuted
        /\ rpc_ids \cap PreciselyMatched = {}
        /\ IF Unmatched = {} THEN rpc_result = "none"
           ELSE rpc_result # "none" /\ rpc_ids = Unmatched
(***************************************************************************)
(* Claims about a geocoding call that gives no coordinates                 *)
(***************************************************************************)
\* the stores without centroid whose ZIP the geocoding gave nothing for
GeocodeFailed ==
    {i \in Geocoded :
        \E e \in Cached(grocery_stores[i].zip_code) : e.coords = NoLocation}

\* C30 as stated: a run in which the geocoding of a store's ZIP gave nothing
\* reaches its report with the store counted as failed, no update queued
\* for it and its failure_count one higher than before
C30_GeocodeFailureAlwaysIncrements ==
    bpc = "report" =>
        \A i \in GeocodeFailed :
            /\ i \in failed_store_ids
            /\ UpdatesOf(i) = {}
            /\ grocery_stores[i].failure_count = before[i].failure_count + 1

GeocodeFailureCounted ==
    FallbackDone =>
        /\ bstats.failed = Cardinality(failed_store_ids)
        /\ \A i \in GeocodeFailed :
              /\ i \in failed_store_ids /\ i \notin centroid_store_ids
              /\ UpdatesOf(i) = {}
              /\ grocery_stores[i].geom = NULL
              /\ bpc = "report" =>
                    /\ rpc_result # "none" /\ i \in rpc_ids
                    /\ grocery_stores[i].failure_count =
                          before[i].failure_count
                            + (IF rpc_result = "ok" THEN 1 ELSE 0)
        /\ \A i \in KeptCentroids :
              i \in centroid_store_ids /\ i \notin failed_store_ids

\* the fallback loop handles a store whose ZIP the geocoding gives, or gave,
\* nothing for
FailsToGeocode ==
    /\ bpc = "fallback" /\ todo # <<>> /\ todo' = Tail(todo)
    /\ Head(todo).id \in GeocodeFailed'

FailureStep ==
    FailsToGeocode =>
        /\ bstats'.failed = bstats.failed + 1
        /\ failed_store_ids' = failed_store_ids \cup {Head(todo).id}
        /\ bpc' = "fallback"
        /\ UNCHANGED <<batch_updates, centroid_store_ids, grocery_stores>>

\* C30 (amended): a geocoding call that gives no coordinates does not end the
\* fallback loop; a store without geometry whose ZIP gave nothing is counted
\* as failed (failed incremented, no update queued, geometry still null) and
\* is passed to the increment call of a run that reaches its report, its
\* failure_count being one higher if that call succeeds and unchanged if it
\* fails; a store that held a centroid is kept as a centroid
C30_GeocodeFailureIsCompleteFailure ==
    /\ []GeocodeFailureCounted
    /\ [][FailureStep]_vars

\* a reported run whose geocoding gave nothing for a store and whose
\* increment call raised the store's failure_count
C30_Witness ==
    /\ bpc = "report" /\ rpc_result = "ok"
    /\ \E i \in GeocodeFailed :
          grocery_stores[i].failure_count = before[i].failure_count + 1
(***************************************************************************)
(* Claims about backfill runs one after another                            *)
(***************************************************************************)
\* C31: every run that selects a store and finds no precise match for it has
\* raised the store's failure_count by exactly 1 when it reports, and no run
\* selects a store whose failure_count had reached 3, so that a store never
\* matched is selected by at most 3 runs
C31_EverySelectingRunCountsOneFailure ==
    /\ \A i \in SelectedIds : before[i].failure_count < MAX_FAILURES
    /\ bpc = "report" =>
          \A i \in Unmatched :
              grocery_stores[i].failure_count = before[i].failure_count + 1
(***************************************************************************)
(* Claims about the ZIP metadata backfill                                  *)
(***************************************************************************)
\* the ZIPs of the batch whose lookup gave metadata
LookedUp == {z \in DOMAIN futures : futures[z].result = "metadata"}

UpdateCallsOf(z) == {j \in DOMAIN update_calls : update_calls[j] = z}

\* process_batch is over and no update raised
BatchOver == zpc \in {"loop", "done", "lookup_raised"} /\ DOMAIN futures # {}

\* C32: the lookups of a batch run in a pool of at most concurrency threads;
\* no outcome of a lookup ends the batch, and when the batch is over every
\* lookup has run, every ZIP whose lookup gave metadata has been updated
\* exactly once and the returned count is the number of those ZIPs
C32_LookupsIsolated ==
    /\ Cardinality({z \in DOMAIN futures : futures[z].state = "running"})
          <= zargs.concurrency
    /\ zpc # "lookup_raised"
    /\ BatchOver =>
          /\ \A z \in DOMAIN futures : futures[z].state = "finished"
          /\ \A z \in LookedUp : Cardinality(UpdateCallsOf(z)) = 1
          /\ processed = Cardinality(LookedUp)
\* while a batch is processed: it is the first one without --loop, and one
\* of the first max_batches with --loop and a cap
BatchesCapped ==
    zpc = "pool" =>
        /\ ~zargs.loop => batch_number = 1
        /\ (zargs.loop /\ zargs.max_batches # 0) =>
              batch_number <= zargs.max_batches

\* C36: run_backfill processes at most one batch without --loop and at most
\* max_batches batches with --loop and a cap, and every run comes to its end,
\* whatever the lookups give and in dry-run mode too
C36_RunBackfillTerminates == []BatchesCapped /\ <>ZipRunOver
(***************************************************************************)
(* Claims about the counters of an import run                              *)
(***************************************************************************)
Counters ==
    stats.wrong_zipcode + stats.duplicates_skipped + stats.no_geometry
        + stats.new_stores

\* the features of the run that have met one of the four outcomes
Outcomes == Counters + Len(stores_to_insert)

\* the final insert_batch of run_geoscraper has counted the records of the
\* accumulator, which wait no longer; the list itself is not reset there
GeoFinalBatchCounted ==
    /\ script = "geo" /\ pc = "brands" /\ pc' = "tracking"
    /\ Counters' = Outcomes

Named(f) == f.name # <<>> /\ NormZip(f.postcode) # <<>>

\* the step starts a run, or ends one by killing its process: the counters
\* of a run live in the memory of its process
StartsRun == runs' # runs \/ pc' = "killed"

OneOutcomePerFeature ==
    /\ \A f \in Features :
          Processes(f) => Outcomes' = Outcomes + (IF Named(f) THEN 1 ELSE 0)
    /\ (~StartsRun /\ \A f \in Features : ~Processes(f)) =>
          Outcomes' = Outcomes \/ GeoFinalBatchCounted
    /\ ~StartsRun =>
          /\ stats'.wrong_zipcode >= stats.wrong_zipcode
          /\ stats'.duplicates_skipped >= stats.duplicates_skipped
          /\ stats'.no_geometry >= stats.no_geometry
          /\ stats'.new_stores >= stats.new_stores
          /\ stats'.errors >= stats.errors

RECURSIVE TrackedTotal(_)
TrackedTotal(zws) ==
    IF zws = <<>> THEN 0 ELSE Head(zws).n + TrackedTotal(Tail(zws))

\* the records of the insert calls of the run that raised
RECURSIVE RejectedBy(_)
RejectedBy(calls) ==
    IF calls = <<>> THEN <<>>
    ELSE (IF Head(calls).ok THEN <<>> ELSE Head(calls).batch) \o RejectedBy(Tail(calls))

InRun == pc \in {"brands", "features", "tracking", "report", "aborted"}

\* C34: at every point of an import run that writes, new_stores is the
\* number of records of the insert calls that returned without error and is
\* the sum of the per-ZIP counts of zips_with_stores; the records of a call
\* that raised are in neither count
C34_NewStoresAreTheInsertedRecords ==
    (InRun /\ ~dry_run) =>
        /\ stats.new_stores = Len(InsertedBy(insert_calls))
        /\ stats.new_stores = TrackedTotal(zips_with_stores)

\* a writing run after one insert call that raised and one that returned,
\* with stores counted in two ZIP codes
C34_Witness ==
    /\ InRun /\ ~dry_run
    /\ RejectedBy(insert_calls) # <<>>
    /\ stats.new_stores >= BATCH_SIZE
    /\ Len(zips_with_stores) >= 2

(***************************************************************************)
(* Claims about stores with precise coordinates                            *)
(***************************************************************************)
\* C35: a store to which a backfill run has given the coordinates of a
\* feature, an upgrade from a centroid included, is outside the selection of
\* every later run: when the run reports, the query a later run starts with
\* does not return the store, so that no later run counts a failure for it
\* or writes its geometry again
C35_PreciseStoreNeverSelectedAgain ==
    bpc = "report" =>
        \A i \in PreciselyMatched : i \notin Selected(grocery_stores)

(***************************************************************************)
(* Claims about import runs at the same time (checked under SpecConcurrent) *)
(***************************************************************************)
\* C37: whatever the interleaving of the key loading and the batch inserts
\* of two import runs on one store table, no two persisted rows have the
\* same composite key: a feature both runs see is inserted by at most one
C37_NoDuplicateRowUnderConcurrency ==
    \A i, j \in DOMAIN grocery_stores :
        RowKey(grocery_stores[i]) = RowKey(grocery_stores[j]) => i = j

(***************************************************************************)
(* Claims about expand_zipcodes_with_neighbors (checked under SpecExpand)  *)
(***************************************************************************)
ScrapedZips == {r.zip_code : r \in scraped_zipcodes}

ReturnsOwnInputs(i) ==
    \A z \in SeqToSet(eargs[i].input_zipcodes) :
        z \notin ScrapedZips => z \in all_zipcodes[i]

ReturnsNothingScraped(i) ==
    eargs[i].skip_existing => all_zipcodes[i] \cap ScrapedZips = {}

\* C38: of two invocations at the same time, one of them with cleanup, each
\* returns every ZIP of its own input that scraped_zipcodes does not hold
\* and, with skip_existing, no ZIP that scraped_zipcodes holds
C38_CleanupLeavesOtherResult ==
    \A i \in Invocations :
        epc[i] = "done" => ReturnsOwnInputs(i) /\ ReturnsNothingScraped(i)
====
